---- MODULE Spec2Model ----
(***************************************************************************)
(* Verification model of the asteroid-impact simulator's computation core. *)
(*                                                                         *)
(* Part 1: the trajectory integrator (AsteroidSimulation3D, Earth,         *)
(* Asteroid, createSimulation).                                            *)
(* Part 2: the physics engine (simulateImpact and the functions it calls,  *)
(* calculateDeflection) and the deflection route.                          *)
(*                                                                         *)
(* Numbers.  The program computes in IEEE doubles; the model computes in   *)
(* fixed point over the integers:                                          *)
(*   positions, radii, distances     km                                    *)
(*   velocities                      mm/s      (1e-6 km/s)                 *)
(*   accelerations                   mm/s^2    (1e-6 km/s^2)               *)
(*   times                           s                                     *)
(*   angles of rotation              1e-7 rad                              *)
(* Quotients truncate toward zero.  Magnitude rounds the square root up,   *)
(* which keeps every comparison of a distance with an integer threshold    *)
(* (<= R_earth + R_asteroid, > 2000000) exact on integer positions.        *)
(*                                                                         *)
(* Objects.  Vector3D objects that the program mutates in place live in    *)
(* `heap`, addressed by references, so that aliasing between a caller's    *)
(* params object and the simulations built from it is representable.       *)
(***************************************************************************)
EXTENDS Integers, Sequences, FiniteSets, TLC

VARIABLES
    heap,         \* Ref -> Vector3D: the mutable Vector3D objects
    params,       \* the caller's params object handed to createSimulation
    earth,        \* SimIds -> Earth object
    asteroid,     \* SimIds -> asteroids[0] of the simulation
    sim,          \* SimIds -> totalTime, isRunning, collisionDetected, collisionInfo
    call,         \* CallIds -> activation of run(): sim, arguments, stepCount, position
    thread,       \* the activation that holds the single JS thread, or 0 (event loop idle)
    progressLog,  \* CallIds -> the onProgress invocations so far
    trace,        \* CallIds -> what was observed of the activation (history only)
    resets,       \* the number of reset() calls made so far (history only)
    impact,       \* the activation of simulateImpact: parameters, locals, position
    deflect,      \* the request to POST /api/simulate/deflection and its response
    calc,         \* a direct call of a service function: op, args, out
    host,         \* the host's direct calls of step(), reset() and checkCollisions()
    server        \* the API server: rate limiter, USGS cache, the request handled

vars ==
    <<heap, params, earth, asteroid, sim, call, thread, progressLog, trace, resets,
      impact, deflect, calc, host, server>>

-----------------------------------------------------------------------------
(* Bounds of the model *)

MaxStepsLong == 10001   \* the longest step budget handed to run()
MaxResets == 1          \* how many reset() calls the host makes in one behaviour
MaxHostSteps == 2       \* how many step() calls the host makes itself
MaxRejected == 2        \* how many requests are sent beyond the limiter's max

-----------------------------------------------------------------------------
(* Arithmetic helpers *)

Abs(n) == IF n < 0 THEN 0 - n ELSE n

\* JavaScript's number division, on fixed point: the quotient truncated toward zero
Quot(a, b) ==
    IF (a >= 0) = (b > 0) THEN Abs(a) \div Abs(b) ELSE 0 - (Abs(a) \div Abs(b))

\* JavaScript's % operator: the result has the sign of the dividend
JsMod(a, b) == a - b * Quot(a, b)

\* the one element of a singleton; The({ F(x) : x \in {e} }) is F(e) with e
\* computed once
The(S) == CHOOSE x \in S : TRUE

RECURSIVE SqrtSearch(_, _, _)
\* least m in lo..hi with m*m >= n, by bisection
SqrtSearch(n, lo, hi) ==
    IF lo >= hi THEN lo
    ELSE The({ IF mid * mid >= n THEN SqrtSearch(n, lo, mid)
                                 ELSE SqrtSearch(n, mid + 1, hi) :
               mid \in {(lo + hi) \div 2} })

\* Math.sqrt, rounded up to the grid
SqrtUp(n) == SqrtSearch(n, 0, 46340)

Vec(a, b, c) == [x |-> a, y |-> b, z |-> c]

ZeroVec == Vec(0, 0, 0)

\* Asteroid.magnitude / AsteroidSimulation3D.magnitude
Magnitude(v) ==
    The({ IF u.y = 0 /\ u.z = 0 THEN Abs(u.x)
          ELSE IF u.x = 0 /\ u.z = 0 THEN Abs(u.y)
          ELSE IF u.x = 0 /\ u.y = 0 THEN Abs(u.z)
          ELSE The({ SqrtUp(n) : n \in {u.x * u.x + u.y * u.y + u.z * u.z} }) :
          u \in {v} })

-----------------------------------------------------------------------------
(* Program constants *)

EarthRadiusKm == 6371

\* G * earth.massKg = 6.6743e-20 km^3/kg/s^2 * 5.972e24 kg, in km^3/s^2
GMEarth == 398589

\* earth.omega = 2*pi/86164 rad/s, in 1e-7 rad/s
OmegaE7 == 729

\* 2 * Math.PI, in 1e-7 rad
TwoPiE7 == 62831853

DefaultDt == 10

ProgressEvery == 500

YieldEvery == 5000

EscapeAfterSteps == 1000

EscapeDistanceKm == 2000000

\* mm/s per km/s, mm/s^2 per km/s^2
Micro == 1000 * 1000

\* one degree, in 1e-7 rad (pi/180)
DegreeE7 == 174533

-----------------------------------------------------------------------------
(* Math.acos / Math.atan2 in whole degrees *)

\* an undefined float result (0/0 and what is computed from it): a value
\* outside the range of every ratio and angle of the model
NaN == 0 - 999999

IsNaN(v) == v = NaN

\* round(1000 * cos(d)) for d = 0..90 degrees
CosTable ==
    <<  1000, 1000, 999, 999, 998, 996, 995, 993, 990, 988, 985, 982, 978,
        974, 970, 966, 961, 956, 951, 946, 940, 934, 927, 921, 914, 906,
        899, 891, 883, 875, 866, 857, 848, 839, 829, 819, 809, 799, 788,
        777, 766, 755, 743, 731, 719, 707, 695, 682, 669, 656, 643, 629,
        616, 602, 588, 574, 559, 545, 530, 515, 500, 485, 469, 454, 438,
        423, 407, 391, 375, 358, 342, 326, 309, 292, 276, 259, 242, 225,
        208, 191, 174, 156, 139, 122, 105, 87, 70, 52, 35, 17, 0 >>

\* acos of q/1000 for 0 <= q <= 1000, in degrees
AcosDegPos(q) ==
    CHOOSE d \in 0..90 :
        /\ CosTable[d + 1] <= q
        /\ d > 0 => CosTable[d] > q

\* (Math.acos(q/1000) * 180) / Math.PI; q is clipped to the cosine's range
AcosDeg(q) ==
    The({ IF c >= 0 THEN AcosDegPos(c) ELSE 180 - AcosDegPos(0 - c) :
          c \in {IF q > 1000 THEN 1000 ELSE IF q < 0 - 1000 THEN 0 - 1000 ELSE q} })

\* the float quotient num/den in thousandths; NaN for 0/0
RatioMilli(num, den) ==
    The({ IF d = 0 THEN NaN
          ELSE IF Abs(d) < 100000 THEN Quot(num * 1000, d)
          ELSE Quot(num * 10, Quot(d, 100)) :
          d \in {den} })

\* (Math.atan2(y, x) * 180) / Math.PI
Atan2Deg(y, x) ==
    IF x = 0 /\ y = 0 THEN 0
    ELSE The({ IF y >= 0 THEN d ELSE 0 - d :
                 d \in {AcosDeg(RatioMilli(x, Magnitude(Vec(x, y, 0))))} })

-----------------------------------------------------------------------------
(* The trajectory history (positions: Vector3D[]).  The array is kept       *)
(* run-length encoded: runs is the sequence of maximal runs of equal        *)
(* entries, [v |-> entry, n |-> how many], and length is the array's length.*)
(* An asteroid that does not move for thousands of steps then has a short   *)
(* state; the array denoted is the same.                                    *)

\* [ v ]
HistNew(v) == [runs |-> <<[v |-> v, n |-> 1]>>, length |-> 1]

\* positions.push(v)
HistPush(h, v) ==
    LET k == Len(h.runs)
    IN  IF h.runs[k].v = v
        THEN [runs |-> [h.runs EXCEPT ![k].n = @ + 1], length |-> h.length + 1]
        ELSE [runs |-> Append(h.runs, [v |-> v, n |-> 1]), length |-> h.length + 1]

\* positions.length
HistLen(h) == h.length

\* positions[0]
HistFirst(h) == h.runs[1].v

\* positions[positions.length - 2], for length >= 2
HistBeforeLast(h) ==
    LET k == Len(h.runs)
    IN  IF h.runs[k].n > 1 THEN h.runs[k].v ELSE h.runs[k - 1].v

\* positions[positions.length - 1]
HistLast(h) == h.runs[Len(h.runs)].v

\* array a is an initial part of array b
HistPrefix(a, b) ==
    LET k == Len(a.runs)
    IN  /\ k <= Len(b.runs)
        /\ \A j \in 1..(k - 1) : a.runs[j] = b.runs[j]
        /\ a.runs[k].v = b.runs[k].v
        /\ a.runs[k].n <= b.runs[k].n
        /\ (a.runs[k].n < b.runs[k].n) => (a.length <= b.length)
        /\ a.length <= b.length

-----------------------------------------------------------------------------
(* Objects *)

SimIds == {1, 2}

CallIds == {1, 2}

\* 0 is the caller of createSimulation; 1, 2 are the simulations
Refs ==
    {<<0, "initialPositionKm">>, <<0, "initialVelocityKmS">>}
        \cup {<<i, f>> : i \in SimIds,
                         f \in {"asteroid.position", "asteroid.velocity", "earth.position"}}

\* the value null
Null == [null |-> TRUE]

\* new Earth(): position defaults to a fresh {x: 0, y: 0, z: 0}
EarthCtor(i) ==
    [ obj   |-> [position |-> <<i, "earth.position">>,
                 radiusKm |-> EarthRadiusKm,
                 rotation |-> 0],
      alloc |-> {<<<<i, "earth.position">>, ZeroVec>>} ]

\* a constructor that keeps the caller's objects instead of copying them
AsteroidCtorAliased(i, h, position, velocity, radiusKm, massKg) ==
    [ obj   |-> [position     |-> position,
                 velocity     |-> velocity,
                 acceleration |-> ZeroVec,
                 radiusKm     |-> radiusKm,
                 massKg       |-> massKg,
                 positions    |-> HistNew(h[position])],
      alloc |-> {} ]

\* new Asteroid(position, velocity, radiusKm, massKg): position and velocity
\* are copied ({ ...position }) into objects of the asteroid's own
AsteroidCtor(i, h, position, velocity, radiusKm, massKg) ==
    [ obj   |-> [position     |-> <<i, "asteroid.position">>,
                 velocity     |-> <<i, "asteroid.velocity">>,
                 acceleration |-> ZeroVec,
                 radiusKm     |-> radiusKm,
                 massKg       |-> massKg,
                 positions    |-> HistNew(h[position])],
      alloc |-> {<<<<i, "asteroid.position">>, h[position]>>,
                 <<<<i, "asteroid.velocity">>, h[velocity]>>} ]

\* new AsteroidSimulation3D(earth, [asteroid])
SimulationCtor ==
    [totalTime |-> 0, isRunning |-> FALSE, collisionDetected |-> FALSE,
     collisionInfo |-> Null]

\* mass of the asteroid in 1e9 kg: (4/3) * pi * r^3 * density, the density in
\* 1e9 kg/km^3
AsteroidMass(p) ==
    Quot(4 * 355 * p.asteroidRadiusKm * p.asteroidRadiusKm * p.asteroidRadiusKm
             * p.asteroidDensityKg, 3 * 113)

\* createSimulation(params) for simulation i, on heap h
CreateSimulation(i, h, p) ==
    LET e == EarthCtor(i)
        a == AsteroidCtor(i, h, p.initialPositionKm, p.initialVelocityKmS,
                          p.asteroidRadiusKm, AsteroidMass(p))
    IN  [earth |-> e.obj, asteroid |-> a.obj, sim |-> SimulationCtor,
         alloc |-> e.alloc \cup a.alloc]

-----------------------------------------------------------------------------
(* The integrator's methods.  A world w is one simulation with the heap:    *)
(* [heap, earth, asteroid, sim]; each method maps the world before to the   *)
(* world after.                                                             *)

VecSub(a, b) == Vec(a.x - b.x, a.y - b.y, a.z - b.z)

\* Asteroid.getDistance(point)
GetDistance(w, point) == Magnitude(VecSub(w.heap[w.asteroid.position], point))

\* G * M / rMag^3 * c, in mm/s^2
GravityComponent(c, rMag) ==
    Quot(Quot(Quot(GMEarth * 1000, rMag) * 1000, rMag) * c, rMag)

\* the division made whatever rMag is: at zero separation the factor is
\* Infinity and every component 0 * Infinity is NaN
UpdateAccelerationUnguarded(w) ==
    The({ The({ [w EXCEPT !.asteroid.acceleration =
                    IF rMag > 0
                    THEN Vec(GravityComponent(rVec.x, rMag),
                             GravityComponent(rVec.y, rMag),
                             GravityComponent(rVec.z, rMag))
                    ELSE Vec(NaN, NaN, NaN)] :
                rMag \in {Magnitude(rVec)} }) :
          rVec \in {VecSub(w.heap[w.earth.position], w.heap[w.asteroid.position])} })

\* Asteroid.updateAcceleration(earth)
UpdateAcceleration(w) ==
    The({ The({ [w EXCEPT !.asteroid.acceleration =
                    IF rMag > 0
                    THEN Vec(GravityComponent(rVec.x, rMag),
                             GravityComponent(rVec.y, rMag),
                             GravityComponent(rVec.z, rMag))
                    ELSE ZeroVec] :
                rMag \in {Magnitude(rVec)} }) :
          rVec \in {VecSub(w.heap[w.earth.position], w.heap[w.asteroid.position])} })

\* Asteroid.applyForce(force): force in 1e6 N, mass in 1e9 kg
ApplyForce(w, force) ==
    LET a == w.asteroid.acceleration
        m == w.asteroid.massKg
    IN  [w EXCEPT !.asteroid.acceleration =
            Vec(a.x + Quot(force.x, m), a.y + Quot(force.y, m), a.z + Quot(force.z, m))]

\* the angle advanced without the % (2 * Math.PI)
UpdateRotationUnwrapped(w, dt) ==
    [w EXCEPT !.earth.rotation = w.earth.rotation + OmegaE7 * dt]

\* Earth.updateRotation(dt)
UpdateRotation(w, dt) ==
    [w EXCEPT !.earth.rotation = JsMod(w.earth.rotation + OmegaE7 * dt, TwoPiE7)]

\* v * dt + 0.5 * a * dt * dt, in km
Displacement(v, a, dt) == Quot(v * dt + Quot(a * dt * dt, 2), Micro)

\* AsteroidSimulation3D.propagateNewtonian(dt)
\* h1 is the heap once the velocity is written, h2 once the position is; the
\* position is read after the velocity was written
PropagateNewtonian(w, dt) ==
    LET a  == w.asteroid.acceleration
        v0 == w.heap[w.asteroid.velocity]
    IN  The({ [w EXCEPT !.heap = h2,
                        !.asteroid.positions = HistPush(@, h2[w.asteroid.position])] :
              h2 \in { LET p0   == h1[w.asteroid.position]
                           vNow == h1[w.asteroid.velocity]
                       IN  [h1 EXCEPT ![w.asteroid.position] =
                               Vec(p0.x + Displacement(vNow.x, a.x, dt),
                                   p0.y + Displacement(vNow.y, a.y, dt),
                                   p0.z + Displacement(vNow.z, a.z, dt))] :
                h1 \in { [w.heap EXCEPT ![w.asteroid.velocity] =
                             Vec(v0.x + a.x * dt, v0.y + a.y * dt, v0.z + a.z * dt)] } } })

RECURSIVE ScaleFor(_, _)
\* the least power of ten s, from s up, with m / s below 20000
ScaleFor(m, s) ==
    IF Quot(m, s) < 20000 THEN s ELSE The({ ScaleFor(m, t) : t \in {s * 10} })

MaxAbs(v) ==
    LET a == Abs(v.x)
        b == Abs(v.y)
        c == Abs(v.z)
    IN  IF a >= b /\ a >= c THEN a ELSE IF b >= c THEN b ELSE c

\* impactAngle: acos(pos . vel / (|pos| |vel|)) in degrees, minus 90; the
\* velocity is rescaled so that its square fits the integers (the ratio does
\* not depend on the unit)
ImpactAngle(pos, vel) ==
    The({ IF IsNaN(q) THEN NaN ELSE AcosDeg(q) - 90 :
          q \in { RatioMilli(Quot(pos.x * v.x + pos.y * v.y + pos.z * v.z, 10),
                             Quot(Magnitude(pos) * Magnitude(v), 10)) :
            v \in { Vec(Quot(vel.x, s), Quot(vel.y, s), Quot(vel.z, s)) :
              s \in { ScaleFor(m, 1) : m \in {MaxAbs(vel)} } } } })

\* latitude: 90 - acos(z / |pos|) in degrees
Latitude(pos) ==
    The({ IF IsNaN(q) THEN NaN ELSE 90 - AcosDeg(q) :
          q \in {RatioMilli(pos.z, Magnitude(pos))} })

\* longitude: (atan2(y, x) in degrees - rotation in degrees) % 360
Longitude(pos, rotation) ==
    JsMod(Atan2Deg(pos.y, pos.x) - Quot(rotation, DegreeE7), 360)

\* a test that leaves the boundary out
CollidesStrict(distance, earthRadiusKm, asteroidRadiusKm) ==
    distance < earthRadiusKm + asteroidRadiusKm

\* the collision test of checkCollisions
Collides(distance, earthRadiusKm, asteroidRadiusKm) ==
    distance <= earthRadiusKm + asteroidRadiusKm

\* AsteroidSimulation3D.checkCollisions()
CheckCollisions(w) ==
    LET earthPos == w.heap[w.earth.position]
        pos      == w.heap[w.asteroid.position]
        vel      == w.heap[w.asteroid.velocity]
    IN  IF \E distance \in {GetDistance(w, earthPos)} :
               Collides(distance, w.earth.radiusKm, w.asteroid.radiusKm)
        THEN [w EXCEPT !.sim.collisionDetected = TRUE,
                       !.sim.collisionInfo =
                           [latitude     |-> Latitude(pos),
                            longitude    |-> Longitude(pos, w.earth.rotation),
                            impactAngle  |-> ImpactAngle(pos, vel),
                            location     |-> "To be determined",
                            timeToImpact |-> w.sim.totalTime]]
        ELSE w

\* AsteroidSimulation3D.step(dt, applyThrust, thrustForce); thrustForce is
\* Null when the argument is left out
\* The statements run one after the other: w1 is the world after the loop
\* over the asteroids, w3 after updateRotation, w4 after propagateNewtonian,
\* w5 after totalTime += dt (each is bound once it is computed).
Step(w, dt, applyThrust, thrustForce) ==
    The({ CheckCollisions(w5) :
            w5 \in { [w4 EXCEPT !.sim.totalTime = @ + dt] :
              w4 \in { PropagateNewtonian(w3, dt) :
                w3 \in { UpdateRotation(w2, dt) :
                  w2 \in { IF applyThrust /\ thrustForce # Null
                           THEN ApplyForce(w1, thrustForce) ELSE w1 :
                    w1 \in { UpdateAcceleration(w) } } } } } })

\* a reset that clears the flag and leaves the collision report
ResetSimKeepsInfo(s) ==
    [s EXCEPT !.totalTime = 0, !.isRunning = FALSE, !.collisionDetected = FALSE]

\* a reset that leaves the elapsed time
ResetSimKeepsTime(s) ==
    [s EXCEPT !.isRunning = FALSE, !.collisionDetected = FALSE, !.collisionInfo = Null]

\* AsteroidSimulation3D.reset()
ResetSim(s) ==
    [s EXCEPT !.totalTime = 0, !.isRunning = FALSE, !.collisionDetected = FALSE,
              !.collisionInfo = Null]

World(i) == [heap |-> heap, earth |-> earth[i], asteroid |-> asteroid[i], sim |-> sim[i]]

-----------------------------------------------------------------------------
(* The physics engine (physicsEngine.js).  Units: mass in tonnes, speed in  *)
(* m/s, energy in TJ (1e12 J), TNT in kilotons, megatons in thousandths,    *)
(* crater                                                                    *)
(* lengths in mm, crater volume in litres, tsunami heights in cm and speeds *)
(* in cm/s.                                                                  *)

\* the value undefined (a parameter or field that was left out) where a
\* number, an object, a string is expected
Undefined == 0 - 888888

UndefinedObject == [undefined |-> TRUE]

UndefinedString == "undefined"

DEFAULT_ASTEROID_DENSITY == 3000

EARTH_SURFACE_GRAVITY_MILLI == 9810

\* Math.sqrt(2 * G * EARTH_MASS / EARTH_RADIUS), in m/s
EscapeVelocity == 11186

\* 1000 * Math.cos / Math.sin of an angle of 0..90 degrees
CosMilli(angle) == CosTable[angle + 1]

SinMilli(angle) == CosTable[(90 - angle) + 1]

RECURSIVE CbrtSearch(_, _, _)
\* least m in lo..hi with m*m*m >= n, by bisection
CbrtSearch(n, lo, hi) ==
    IF lo >= hi THEN lo
    ELSE The({ IF mid * mid * mid >= n THEN CbrtSearch(n, lo, mid)
                                       ELSE CbrtSearch(n, mid + 1, hi) :
               mid \in {(lo + hi) \div 2} })

\* Math.pow(q/1000, 1/3) in thousandths, for 0 <= q <= 1000
CbrtMilli(q) == The({ CbrtSearch(n, 0, 1000) : n \in {q * Micro} })

\* Math.pow(n, 0.25)
Root4(n) == The({ SqrtUp(r) : r \in {SqrtUp(n)} })

\* a parameter with a default value
OrDefault(v, default) == IF v = Undefined THEN default ELSE v

\* calculateMass(diameter, density): (4/3) * pi * (diameter/2)^3 * density,
\* that is pi * diameter^3 / 6 * density
CalculateMass(diameter, density) ==
    The({ Quot(Quot(355 * diameter * diameter * diameter, 6 * 113) * Quot(d, 100), 10) :
          d \in {OrDefault(density, DEFAULT_ASTEROID_DENSITY)} })

\* calculateImpactVelocity(initialVelocity, angle)
CalculateImpactVelocity(initialVelocity, angle) ==
    The({ SqrtUp(finalVertical * finalVertical + horizontalComponent * horizontalComponent) :
          finalVertical \in
              { SqrtUp(verticalComponent * verticalComponent
                           + EscapeVelocity * EscapeVelocity) :
                verticalComponent \in {Quot(initialVelocity * SinMilli(angle), 1000)} },
          horizontalComponent \in {Quot(initialVelocity * CosMilli(angle), 1000)} })

\* calculateImpactEnergy(mass, velocity): 0.5 * mass * velocity^2 and its TNT
\* equivalents (1 ton TNT = 4.184e9 J)
CalculateImpactEnergy(mass, velocity) ==
    The({ The({ [joules |-> joules, tntTons |-> tntTons, megatons |-> tntTons] :
                tntTons \in {Quot(joules * 1000, 4184)} }) :
          joules \in {Quot(Quot(mass, 10) * Quot(velocity * velocity, Micro), 200)} })

\* calculateCraterSize(energy, angle): diameter 1.8 * (energy / 1e15)^0.25
\* * sin(angle)^(1/3) metres, that is 1800 / 1e6^0.25 = 56.92 mm for each unit
\* of (1000 * energy in TJ)^0.25; depth a fifth of it; volume of the cone
CalculateCraterSize(energy, angle) ==
    The({ The({ [diameter |-> diameter,
                 depth    |-> depth,
                 volume   |-> Quot(355 * Quot(Quot(diameter, 100) * Quot(diameter, 100), 4)
                                       * Quot(depth, 100), 3 * 113)] :
                depth \in {Quot(diameter, 5)} }) :
          diameter \in { Quot(Quot(5692 * Root4(energy * 1000), 100)
                                 * CbrtMilli(SinMilli(OrDefault(angle, 45))), 1000) } })

\* calculateTsunamiEffects(energy, waterDepth)
CalculateTsunamiEffects(energy, waterDepth) ==
    The({ The({ [initialWaveHeight |-> SqrtUp(megatons * 1000),
                 wavelength        |-> depth * 50,
                 propagationSpeed  |-> speed,
                 speedKmh          |-> Quot(speed * 36, 10),
                 affectedRadiusKm  |-> Quot(megatons, 10)] :
                speed \in {SqrtUp(Quot(EARTH_SURFACE_GRAVITY_MILLI * depth, 1000) * 10000)} }) :
          megatons \in {Quot(energy * 1000, 4184)},
          depth \in {OrDefault(waterDepth, 4000)} })


\* a number too large or too small for the integers of the model:
\* m * 10^e
Sci(m, e) == [m |-> m, e |-> e]

RECURSIVE Pow10(_)
\* 10^k for a natural number k
Pow10(k) == IF k = 0 THEN 1 ELSE 10 * Pow10(k - 1)

\* round(1000 * 10^(j/100)) for j = 0..100
Pow10Table ==
    <<
        1000, 1023, 1047, 1072, 1096, 1122, 1148, 1175, 1202, 1230, 1259, 1288, 1318,
        1349, 1380, 1413, 1445, 1479, 1514, 1549, 1585, 1622, 1660, 1698, 1738, 1778,
        1820, 1862, 1905, 1950, 1995, 2042, 2089, 2138, 2188, 2239, 2291, 2344, 2399,
        2455, 2512, 2570, 2630, 2692, 2754, 2818, 2884, 2951, 3020, 3090, 3162, 3236,
        3311, 3388, 3467, 3548, 3631, 3715, 3802, 3890, 3981, 4074, 4169, 4266, 4365,
        4467, 4571, 4677, 4786, 4898, 5012, 5129, 5248, 5370, 5495, 5623, 5754, 5888,
        6026, 6166, 6310, 6457, 6607, 6761, 6918, 7079, 7244, 7413, 7586, 7762, 7943,
        8128, 8318, 8511, 8710, 8913, 9120, 9333, 9550, 9772, 10000 >>

\* Math.log10(n) for an integer n >= 1, in hundredths, rounded down
Log10Centi(n) ==
    The({ The({ 100 * k + j :
                j \in { i \in 0..99 : Pow10Table[i + 1] <= mantissa
                                        /\ mantissa < Pow10Table[i + 2] } }) :
          k \in { i \in 0..9 : Pow10(i) <= n /\ (i = 9 \/ n < Pow10(i + 1)) },
          mantissa \in { The({ IF i <= 3 THEN n * Pow10(3 - i) ELSE n \div Pow10(i - 3) :
                               i \in { i \in 0..9 : Pow10(i) <= n
                                                      /\ (i = 9 \/ n < Pow10(i + 1)) } }) } })

\* Math.log10 of m * 10^e, in hundredths
Log10SciCenti(x) == Log10Centi(x.m) + 100 * x.e

\* Math.pow(10, x) for x in thousandths: the mantissa in thousandths and the
\* power of ten
Pow10Sci(x) == [m |-> Pow10Table[((x % 1000) \div 10) + 1], e |-> x \div 1000]

\* calculateSeismicEffects(energy): energy in J as m * 10^e, magnitude in
\* thousandths
CalculateSeismicEffects(energy) ==
    The({ [magnitude   |-> IF magnitude > 0 THEN magnitude ELSE 0,
           description |->
               IF magnitude < 4000 THEN "Minor - Often felt, but rarely causes damage"
               ELSE IF magnitude < 5000 THEN "Light - Noticeable shaking, minor damage"
               ELSE IF magnitude < 6000 THEN "Moderate - Can cause damage to buildings"
               ELSE IF magnitude < 7000 THEN "Strong - Major damage in populated areas"
               ELSE IF magnitude < 8000 THEN "Major - Serious damage over large areas"
               ELSE "Great - Catastrophic destruction",
           radiusKm    |-> Pow10Sci(magnitude - 1000)] :
          magnitude \in { Quot(20 * Log10SciCenti(energy), 3) - 4800 } })

-----------------------------------------------------------------------------
(* Floating-point numbers.  A quantity of the population service that is    *)
(* not a whole number is a binary floating-point number m * 2^e whose        *)
(* mantissa m has MantissaBits significant bits (the program's doubles have  *)
(* 53); every operation rounds its exact result to the nearest such number,  *)
(* ties to even, as IEEE 754 does.  Quantities that are whole numbers in the *)
(* program (populations, casualties) are integers.                          *)

MantissaBits == 13

RECURSIVE Pow2(_)
\* 2^k for a natural number k
Pow2(k) == IF k = 0 THEN 1 ELSE 2 * Pow2(k - 1)

RECURSIVE BitLength(_)
\* the number of bits of a natural number
BitLength(a) == IF a = 0 THEN 0 ELSE 1 + BitLength(a \div 2)

\* the float m * 2^e as it is held: 2^(MantissaBits-1) <= |m| < 2^MantissaBits,
\* or 0
Float(m, e) == [m |-> m, e |-> e]

FZero == Float(0, 0)

\* the float NaN
FNaN == Float(0, 1)

\* n / q rounded to the nearest integer, ties to even (n >= 0, q > 0)
RoundHalfEven(n, q) ==
    The({ IF 2 * (n % q) > q \/ (2 * (n % q) = q /\ f % 2 = 1) THEN f + 1 ELSE f :
          f \in {n \div q} })

\* the float nearest to m * 2^e
FNorm(m, e) ==
    IF m = 0 THEN FZero
    ELSE The({ IF k <= 0
               THEN Float(m * Pow2(0 - k), e + k)
               ELSE The({ IF r = Pow2(MantissaBits)
                          THEN Float(s * Pow2(MantissaBits - 1), e + k + 1)
                          ELSE Float(s * r, e + k) :
                          r \in {RoundHalfEven(Abs(m), Pow2(k))},
                          s \in {IF m > 0 THEN 1 ELSE 0 - 1} }) :
               k \in {BitLength(Abs(m)) - MantissaBits} })

\* a whole number as a float
FromInt(n) == FNorm(n, 0)

FNeg(a) == IF a = FNaN THEN FNaN ELSE Float(0 - a.m, a.e)

\* a + b
FAdd(a, b) ==
    IF a = FNaN \/ b = FNaN THEN FNaN
    ELSE IF a.m = 0 THEN b
    ELSE IF b.m = 0 THEN a
    ELSE The({ IF hi.e - lo.e > MantissaBits + 2 THEN hi
               ELSE FNorm(hi.m * Pow2(hi.e - lo.e) + lo.m, lo.e) :
               hi \in {IF a.e >= b.e THEN a ELSE b},
               lo \in {IF a.e >= b.e THEN b ELSE a} })

\* a - b
FSub(a, b) == FAdd(a, FNeg(b))

\* a * b
FMul(a, b) ==
    IF a = FNaN \/ b = FNaN THEN FNaN ELSE FNorm(a.m * b.m, a.e + b.e)

\* a / b for b # 0: the quotient to MantissaBits + 3 bits, the last of them
\* set when the division left a remainder
FDiv(a, b) ==
    IF a = FNaN \/ b = FNaN THEN FNaN
    ELSE The({ FNorm((IF (a.m >= 0) = (b.m > 0) THEN 1 ELSE 0 - 1)
                        * (2 * (n \div Abs(b.m)) + (IF n % Abs(b.m) = 0 THEN 0 ELSE 1)),
                     a.e - b.e - MantissaBits - 3) :
               n \in {Abs(a.m) * Pow2(MantissaBits + 2)} })

\* Math.sqrt(a): NaN below 0
FSqrt(a) ==
    IF a = FNaN \/ a.m < 0 THEN FNaN
    ELSE IF a.m = 0 THEN a
    ELSE The({ The({ FNorm(2 * s + (IF s * s = n THEN 0 ELSE 1), ((a.e - k) \div 2) - 1) :
                     s \in { The({ IF up * up = n THEN up ELSE up - 1 :
                                   up \in {SqrtUp(n)} }) } }) :
               k \in {IF (a.e - (MantissaBits + 2)) % 2 = 0
                      THEN MantissaBits + 2 ELSE MantissaBits + 3},
               n \in {a.m * Pow2(IF (a.e - (MantissaBits + 2)) % 2 = 0
                                 THEN MantissaBits + 2 ELSE MantissaBits + 3)} })

\* a < b, a <= b, a = 0 (false when either operand is NaN)
FLess(a, b) ==
    /\ a # FNaN
    /\ b # FNaN
    /\ \E d \in {FSub(a, b)} : d.m < 0

FLessEq(a, b) ==
    /\ a # FNaN
    /\ b # FNaN
    /\ \E d \in {FSub(a, b)} : d.m <= 0

\* |a| > 1
FAbove1(a) ==
    /\ a # FNaN
    /\ a.m # 0
    /\ \/ a.e > 0 - (MantissaBits - 1)
       \/ a.e = 0 - (MantissaBits - 1) /\ Abs(a.m) > Pow2(MantissaBits - 1)

\* Math.PI
FPi == FNorm(3294199, 0 - 20)

\* the float n / d of two whole numbers
FRatio(n, d) == FDiv(FromInt(n), FromInt(d))

\* Math.asin(y) for 0 <= y <= 0.71: y + y^3/6 + 3y^5/40 + 5y^7/112
FAsinSmall(y) ==
    The({ The({ FAdd(FAdd(FAdd(y, FMul(FRatio(1, 6), FMul(y2, y))),
                          FMul(FRatio(3, 40), FMul(y4, y))),
                     FMul(FRatio(5, 112), FMul(FMul(y4, y2), y))) :
                y4 \in {FMul(y2, y2)} }) :
          y2 \in {FMul(y, y)} })

\* Math.acos(x): NaN outside -1..1; 2 * asin(sqrt((1 - |x|) / 2)) and its
\* supplement for x < 0
FAcos(x) ==
    IF x = FNaN \/ FAbove1(x) THEN FNaN
    ELSE The({ IF x.m >= 0 THEN t ELSE FSub(FPi, t) :
               t \in { FMul(FromInt(2),
                            FAsinSmall(FSqrt(FMul(FRatio(1, 2),
                                                  FSub(FromInt(1), Float(Abs(x.m), x.e)))))) } })

\* Math.round(a) as a whole number; NaN for NaN
FRound(a) ==
    IF a = FNaN THEN NaN
    ELSE IF a.e >= 0 THEN a.m * Pow2(a.e)
    ELSE IF 0 - a.e > 29 THEN 0
    ELSE (2 * a.m + Pow2(0 - a.e)) \div Pow2(1 - a.e)

\* calculateOverlapArea(distance, blastRadius, cityRadius), in km^2
CalculateOverlapArea(distance, blastRadius, cityRadius) ==
    IF distance = FZero
    THEN The({ FMul(FPi, FMul(least, least)) :
               least \in {IF FLess(cityRadius, blastRadius) THEN cityRadius
                          ELSE blastRadius} })
    ELSE IF FLessEq(FAdd(blastRadius, cityRadius), distance) THEN FZero
    ELSE IF FLessEq(FAdd(distance, cityRadius), blastRadius)
         THEN FMul(FMul(FPi, cityRadius), cityRadius)
    ELSE IF FLessEq(FAdd(distance, blastRadius), cityRadius)
         THEN FMul(FMul(FPi, blastRadius), blastRadius)
    ELSE The({ The({ FSub(FAdd(part1, part2), part3) :
                     part1 \in { FMul(FMul(r1, r1),
                                      FAcos(FDiv(FSub(FAdd(dd, FMul(r1, r1)), FMul(r2, r2)),
                                                 FMul(FMul(FromInt(2), d), r1)))) },
                     part2 \in { FMul(FMul(r2, r2),
                                      FAcos(FDiv(FSub(FAdd(dd, FMul(r2, r2)), FMul(r1, r1)),
                                                 FMul(FMul(FromInt(2), d), r2)))) },
                     part3 \in { FMul(FRatio(1, 2),
                                      FSqrt(FMul(FMul(FMul(FAdd(FAdd(FNeg(d), r1), r2),
                                                           FSub(FAdd(d, r1), r2)),
                                                      FAdd(FSub(d, r1), r2)),
                                                 FAdd(FAdd(d, r1), r2)))) } }) :
               d \in {distance}, r1 \in {blastRadius}, r2 \in {cityRadius},
               dd \in {FMul(distance, distance)} })

-----------------------------------------------------------------------------
(* populationService: the registry of cities and the population in a disc   *)

\* this.fallbackDensity.rural, in people per km^2
RuralDensity == 50

\* the density far from every city (line 215)
RemoteDensity == 10

\* this.majorCities: lat and lon in 1/10000 degree, radius in km
majorCities ==
    <<
      [name |-> "Tokyo", lat |-> 356762, lon |-> 1396503,
       population |-> 37400000, radius |-> 40],
      [name |-> "Delhi", lat |-> 287041, lon |-> 771025,
       population |-> 30300000, radius |-> 35],
      [name |-> "Shanghai", lat |-> 312304, lon |-> 1214737,
       population |-> 27100000, radius |-> 35],
      [name |-> "Sao Paulo", lat |-> 0 - 235505, lon |-> 0 - 466333,
       population |-> 22000000, radius |-> 30],
      [name |-> "Mexico City", lat |-> 194326, lon |-> 0 - 991332,
       population |-> 21800000, radius |-> 30],
      [name |-> "Cairo", lat |-> 300444, lon |-> 312357,
       population |-> 20900000, radius |-> 30],
      [name |-> "Mumbai", lat |-> 190760, lon |-> 728777,
       population |-> 20400000, radius |-> 25],
      [name |-> "Beijing", lat |-> 399042, lon |-> 1164074,
       population |-> 20400000, radius |-> 30],
      [name |-> "Dhaka", lat |-> 238103, lon |-> 904125,
       population |-> 21000000, radius |-> 25],
      [name |-> "Osaka", lat |-> 346937, lon |-> 1355023,
       population |-> 19300000, radius |-> 25],
      [name |-> "New York", lat |-> 407128, lon |-> 0 - 740060,
       population |-> 18800000, radius |-> 30],
      [name |-> "Karachi", lat |-> 248607, lon |-> 670011,
       population |-> 16000000, radius |-> 25],
      [name |-> "Buenos Aires", lat |-> 0 - 346037, lon |-> 0 - 583816,
       population |-> 15000000, radius |-> 25],
      [name |-> "Istanbul", lat |-> 410082, lon |-> 289784,
       population |-> 15400000, radius |-> 25],
      [name |-> "Kolkata", lat |-> 225726, lon |-> 883639,
       population |-> 14900000, radius |-> 20],
      [name |-> "Manila", lat |-> 145995, lon |-> 1209842,
       population |-> 13900000, radius |-> 20],
      [name |-> "Lagos", lat |-> 65244, lon |-> 33792,
       population |-> 14000000, radius |-> 20],
      [name |-> "Rio de Janeiro", lat |-> 0 - 229068, lon |-> 0 - 431729,
       population |-> 13500000, radius |-> 20],
      [name |-> "Guangzhou", lat |-> 231291, lon |-> 1132644,
       population |-> 13100000, radius |-> 20],
      [name |-> "Los Angeles", lat |-> 340522, lon |-> 0 - 1182437,
       population |-> 12400000, radius |-> 25],
      [name |-> "Moscow", lat |-> 557558, lon |-> 376173,
       population |-> 12500000, radius |-> 25],
      [name |-> "Paris", lat |-> 488566, lon |-> 23522,
       population |-> 11000000, radius |-> 20],
      [name |-> "London", lat |-> 515074, lon |-> 0 - 1278,
       population |-> 9500000, radius |-> 20],
      [name |-> "Chicago", lat |-> 418781, lon |-> 0 - 876298,
       population |-> 8900000, radius |-> 20],
      [name |-> "Bangalore", lat |-> 129716, lon |-> 775946,
       population |-> 12300000, radius |-> 20],
      [name |-> "Toronto", lat |-> 436532, lon |-> 0 - 793832,
       population |-> 6200000, radius |-> 15],
      [name |-> "Montreal", lat |-> 455017, lon |-> 0 - 735673,
       population |-> 4200000, radius |-> 15],
      [name |-> "Vancouver", lat |-> 492827, lon |-> 0 - 1231207,
       population |-> 2600000, radius |-> 12],
      [name |-> "Sydney", lat |-> 0 - 338688, lon |-> 1512093,
       population |-> 5300000, radius |-> 15],
      [name |-> "Melbourne", lat |-> 0 - 378136, lon |-> 1449631,
       population |-> 5000000, radius |-> 15],
      [name |-> "Berlin", lat |-> 525200, lon |-> 134050,
       population |-> 3800000, radius |-> 15],
      [name |-> "Madrid", lat |-> 404168, lon |-> 0 - 37038,
       population |-> 6600000, radius |-> 15],
      [name |-> "Rome", lat |-> 419028, lon |-> 124964,
       population |-> 4300000, radius |-> 15],
      [name |-> "Barcelona", lat |-> 413874, lon |-> 21686,
       population |-> 5600000, radius |-> 15],
      [name |-> "San Francisco", lat |-> 377749, lon |-> 0 - 1224194,
       population |-> 4700000, radius |-> 15],
      [name |-> "Seattle", lat |-> 476062, lon |-> 0 - 1223321,
       population |-> 4000000, radius |-> 15],
      [name |-> "Boston", lat |-> 423601, lon |-> 0 - 710589,
       population |-> 4900000, radius |-> 15],
      [name |-> "Miami", lat |-> 257617, lon |-> 0 - 801918,
       population |-> 6200000, radius |-> 15],
      [name |-> "Atlanta", lat |-> 337490, lon |-> 0 - 843880,
       population |-> 6000000, radius |-> 15],
      [name |-> "Washington DC", lat |-> 389072, lon |-> 0 - 770369,
       population |-> 6300000, radius |-> 15],
      [name |-> "Houston", lat |-> 297604, lon |-> 0 - 953698,
       population |-> 7100000, radius |-> 18],
      [name |-> "Dallas", lat |-> 327767, lon |-> 0 - 967970,
       population |-> 7600000, radius |-> 18],
      [name |-> "Philadelphia", lat |-> 399526, lon |-> 0 - 751652,
       population |-> 6200000, radius |-> 15],
      [name |-> "Phoenix", lat |-> 334484, lon |-> 0 - 1120740,
       population |-> 4900000, radius |-> 15] >>

\* calculateDistance(lat, lon, city.lat, city.lon) in 1/100 km for each city of
\* the registry, in its order, from the points the service is asked about
HaversineTable(lat, lon) ==
    CASE lat = 0 /\ lon = 0 ->  \* the default location
           <<
              1426063, 875213, 1295599, 566970, 1096480, 469857, 821114, 1222572,
              1004951, 1400015, 866707, 769878, 716497, 541402, 983956, 1333001,
              81664, 531461, 1237583, 1257435, 706418, 543729, 572737, 981133,
              866387, 915573, 873592, 1232945, 1519945, 1448917, 597201, 450975,
              482519, 460724, 1279542, 1235782, 846440, 902623, 948894, 888969,
              1052570, 1064256, 874895, 1203954 >>
      [] lat = 480000 /\ lon = 20000 ->  \* 98.7 km south of Paris
           <<
              980558, 661409, 934513, 931524, 920651, 318643, 703352, 830130,
              795266, 972543, 584883, 615125, 1096573, 226228, 790241, 1081534,
              461373, 907880, 956925, 913269, 255899, 9873, 41885, 667682,
              787149, 602233, 552501, 798508, 1701870, 1682965, 95227, 95731,
              106696, 73541, 900788, 810375, 554303, 735192, 704869, 617628,
              810393, 795736, 597793, 884239 >>
      [] lat = 0 /\ lon = 0 - 300000 ->  \* the Atlantic on the equator
           <<
              1590589, 1166969, 1542289, 317529, 782505, 727025, 1135961, 1442394,
              1307537, 1587332, 633388, 1071358, 484817, 746273, 1290078, 1643529,
              377376, 291846, 1528658, 984575, 863170, 625283, 637542, 739528,
              1191248, 688293, 661387, 1023384, 1624693, 1577881, 709021, 522126,
              630667, 562357, 1022016, 1018235, 624241, 609227, 678759, 644614,
              764906, 785644, 636961, 927289 >>
      [] lat = 520000 /\ lon = 50000 ->  \* the Netherlands
           <<
              931749, 633976, 889406, 978163, 923859, 325146, 684213, 784381,
              763959, 924271, 588395, 595915, 1142373, 218885, 760536, 1040535,
              505884, 955177, 916351, 897338, 215734, 39661, 35712, 663483,
              768624, 600633, 551963, 773395, 1665343, 1654761, 57463, 144932,
              125713, 119942, 880908, 786332, 557829, 746226, 708183, 621079,
              810008, 792712, 601356, 872121 >>
      [] lat = 488600 /\ lon = 26500 ->  \* 21.8 km east of the centre of Paris
           <<
              969936, 655054, 924600, 941733, 921640, 319137, 698756, 820082,
              788158, 962016, 585732, 610463, 1106626, 223445, 783466, 1072477,
              470800, 918218, 947936, 910092, 246745, 2179, 35459, 666919,
              782726, 601986, 552443, 793273, 1694005, 1676965, 85880, 106406,
              108911, 83177, 896742, 805379, 555129, 737775, 705760, 618489,
              810545, 795307, 598663, 881879 >>
      [] lat = 488566 /\ lon = 23522 ->  \* the centre of Paris
           <<
              971172, 657210, 926266, 940189, 919625, 321001, 700933, 821699,
              790275, 963359, 583724, 612640, 1105012, 225560, 785602, 1074361,
              470812, 916742, 949835, 908551, 248625, 0, 34356, 665063,
              784901, 600076, 550514, 792084, 1696050, 1679128, 87746, 105289,
              110528, 83066, 895339, 804144, 553123, 735657, 703751, 616481,
              808600, 793418, 596654, 880221 >>
      [] lat = 403300 /\ lon = 0 - 745800 ->  \* between New York and Philadelphia
           <<
              1086737, 1180098, 1188795, 766985, 329498, 908578, 1260039, 1102421,
              1271564, 1112173, 6454, 1174828, 849605, 813435, 1280096, 1369898,
              851892, 774699, 1291212, 389015, 757277, 590156, 563471, 110575,
              1342986, 54215, 58094, 388487, 1593712, 1661837, 644947, 582983,
              695379, 622847, 409029, 384285, 37056, 170127, 113596, 26326,
              221923, 214729, 6508, 339440 >>

\* the index of the city at (lat, lon) in the registry
CityIndex(lat, lon) ==
    CHOOSE i \in 1..Len(majorCities) : majorCities[i].lat = lat /\ majorCities[i].lon = lon

\* calculateDistance(lat1, lon1, lat2, lon2), in km: the haversine distance
\* from a point that is asked about to a city of the registry
CalculateDistance(lat1, lon1, lat2, lon2) ==
    FRatio(HaversineTable(lat1, lon1)[CityIndex(lat2, lon2)], 100)

RECURSIVE FExpSeries(_, _)
\* 1 + x/k * (1 + x/(k+1) * (...)), down from the term x^9/9!
FExpSeries(x, k) ==
    IF k > 9 THEN FromInt(1)
    ELSE FAdd(FromInt(1), FMul(FDiv(x, FromInt(k)), FExpSeries(x, k + 1)))

\* Math.exp(-x) for 0 <= x < 2
FExpNeg(x) == FDiv(FromInt(1), FExpSeries(x, 1))

\* city.population / (Math.PI * city.radius * city.radius)
CityDensity(population, radius) ==
    FDiv(FromInt(population), FMul(FMul(FPi, FromInt(radius)), FromInt(radius)))

\* a fallback that takes the first city of the registry for the nearest
FindFirstCity(lat, lon) ==
    [city |-> majorCities[1],
     distance |-> CalculateDistance(lat, lon, majorCities[1].lat, majorCities[1].lon)]

\* findNearestCity(lat, lon): the first city of the registry at the least
\* distance
FindNearestCity(lat, lon) ==
    The({ The({ [city |-> majorCities[i], distance |-> distances[i]] :
                i \in { j \in 1..Len(majorCities) :
                          /\ \A k \in 1..Len(majorCities) : ~FLess(distances[k], distances[j])
                          /\ \A k \in 1..(j - 1) : FLess(distances[j], distances[k]) } }) :
          distances \in { [j \in 1..Len(majorCities) |->
                              FRatio(HaversineTable(lat, lon)[j], 100)] } })

\* estimateDensityFromNearestCity(distanceKm, cityPopulation, cityRadius)
EstimateDensityFromNearestCity(distanceKm, cityPopulation, cityRadius) ==
    IF FLess(distanceKm, FromInt(50))
    THEN FMul(CityDensity(cityPopulation, cityRadius),
              FExpNeg(FDiv(distanceKm, FromInt(30))))
    ELSE IF FLess(distanceKm, FromInt(200)) THEN FromInt(RuralDensity)
    ELSE FromInt(RemoteDensity)

\* isOcean(lat, lon): more than 500 km from every city
IsOcean(lat, lon) ==
    \E nearest \in {FindNearestCity(lat, lon)} : FLess(FromInt(500), nearest.distance)

\* lines 96-106: Math.round(overlapArea * cityDensity) for a city within
\* reach of the disc, and 0 for a city out of reach
AffectedPop(distance, radiusKm, city) ==
    IF FLessEq(distance, FAdd(radiusKm, FromInt(city.radius)))
    THEN FRound(FMul(CalculateOverlapArea(distance, radiusKm, FromInt(city.radius)),
                     CityDensity(city.population, city.radius)))
    ELSE 0

RECURSIVE SumOver(_, _)
\* the sum of f[i] for i in the set of indices
SumOver(f, indices) ==
    IF indices = {} THEN 0
    ELSE The({ f[i] + SumOver(f, indices \ {i}) : i \in {CHOOSE k \in indices : TRUE} })

\* the loop of lines 94-118: totalPopulation and affectedCities, the cities
\* with affectedPop > 0 in the order of the registry
ScanCities(lat, lon, radiusKm) ==
    The({ The({ [totalPopulation |-> SumOver(affectedPop, pushed),
                 affectedCities |->
                     [k \in 1..Cardinality(pushed) |->
                         The({ [name |-> majorCities[i].name,
                                distance |->
                                    FRound(CalculateDistance(lat, lon, majorCities[i].lat,
                                                             majorCities[i].lon)),
                                population |-> majorCities[i].population,
                                affectedPopulation |-> affectedPop[i]] :
                               i \in { j \in pushed :
                                         Cardinality({h \in pushed : h <= j}) = k } })]] :
                pushed \in { {i \in 1..Len(majorCities) : affectedPop[i] > 0} } }) :
          affectedPop \in
              { [i \in 1..Len(majorCities) |->
                    AffectedPop(CalculateDistance(lat, lon, majorCities[i].lat,
                                                  majorCities[i].lon),
                                radiusKm, majorCities[i])] } })

\* the population estimated from the nearest city: lines 121-132
FallbackPopulation(lat, lon, radiusKm) ==
    The({ FRound(FMul(FMul(FMul(FPi, radiusKm), radiusKm),
                      EstimateDensityFromNearestCity(nearest.distance,
                                                     nearest.city.population,
                                                     nearest.city.radius))) :
          nearest \in {FindNearestCity(lat, lon)} })

\* getPopulationInRadius(lat, lon, radiusKm); fallback tells whether the
\* estimate from the nearest city was taken
GetPopulationInRadius(lat, lon, radiusKm) ==
    The({ The({ [totalPopulation |-> totalPopulation,
                 affectedCities  |-> found.affectedCities,
                 isOcean         |-> totalPopulation = 0 /\ IsOcean(lat, lon),
                 fallback        |-> found.affectedCities = <<>>] :
                totalPopulation \in
                    { IF found.affectedCities = <<>>
                      THEN FallbackPopulation(lat, lon, radiusKm)
                      ELSE found.totalPopulation } }) :
          found \in {ScanCities(lat, lon, radiusKm)} })

-----------------------------------------------------------------------------
(* simulateImpact and calculateCasualties *)

\* the default of simulateImpact's impactLocation parameter
DefaultImpactLocation == [lat |-> 0, lon |-> 0, isOcean |-> FALSE, depth |-> 0]

\* a crater computed whatever the location
CraterAlways(impactLocation, joules, angle) == CalculateCraterSize(joules, angle)

\* const crater = !impactLocation.isOcean ? calculateCraterSize(...) : null
CraterFor(impactLocation, joules, angle) ==
    IF ~impactLocation.isOcean THEN CalculateCraterSize(joules, angle) ELSE Null

\* const tsunami = impactLocation.isOcean ? calculateTsunamiEffects(...) : null
TsunamiFor(impactLocation, joules) ==
    IF impactLocation.isOcean
    THEN CalculateTsunamiEffects(joules, impactLocation.depth)
    ELSE Null

\* coef * Math.pow(megatons, exponent / 100) in metres, from log10(megatons)
\* in hundredths
PowerLaw(coef, exponent, log10Mt) ==
    The({ IF p.e >= 0
          THEN FMul(FRatio(coef * p.m, 1000), FromInt(Pow10(p.e)))
          ELSE FDiv(FRatio(coef * p.m, 1000), FromInt(Pow10(0 - p.e))) :
          p \in {Pow10Sci((exponent * log10Mt) \div 10)} })

\* calculateBlastRadius(energy): energy in TJ (at least 1), the radii in
\* metres; megatons = energy / 4.184e15 is log10(energy in TJ) - 3.62 in
\* logarithms
CalculateBlastRadius(joules) ==
    The({ [fireball        |-> PowerLaw(40, 33, log10Mt),
           radiationRadius |-> PowerLaw(200, 41, log10Mt),
           airblastRadius  |-> PowerLaw(350, 33, log10Mt),
           thermalRadius   |-> PowerLaw(500, 41, log10Mt)] :
          log10Mt \in {Log10Centi(joules) - 362} })

\* the zones with the mortality rates of thermal and airblast exchanged
ZonesExchanged(blast) ==
    << [name |-> "fireball", radius |-> FDiv(blast.fireball, FromInt(1000)),
        mortalityRate |-> FromInt(1)],
       [name |-> "thermal", radius |-> FDiv(blast.thermalRadius, FromInt(1000)),
        mortalityRate |-> FRatio(7, 10)],
       [name |-> "airblast", radius |-> FDiv(blast.airblastRadius, FromInt(1000)),
        mortalityRate |-> FRatio(9, 10)],
       [name |-> "radiation", radius |-> FDiv(blast.radiationRadius, FromInt(1000)),
        mortalityRate |-> FRatio(3, 10)] >>

\* the zones of calculateCasualties in the order of Object.entries: radius in
\* km
Zones(blast) ==
    << [name |-> "fireball", radius |-> FDiv(blast.fireball, FromInt(1000)),
        mortalityRate |-> FromInt(1)],
       [name |-> "thermal", radius |-> FDiv(blast.thermalRadius, FromInt(1000)),
        mortalityRate |-> FRatio(9, 10)],
       [name |-> "airblast", radius |-> FDiv(blast.airblastRadius, FromInt(1000)),
        mortalityRate |-> FRatio(7, 10)],
       [name |-> "radiation", radius |-> FDiv(blast.radiationRadius, FromInt(1000)),
        mortalityRate |-> FRatio(3, 10)] >>

\* detailedZones[zoneName] of lines 342-354, without area and description
DetailedZone(zone, popData) ==
    [name               |-> zone.name,
     radius             |-> zone.radius,
     populationAffected |-> popData.totalPopulation,
     casualties         |->
         FRound(FMul(FromInt(popData.totalPopulation), zone.mortalityRate)),
     injured            |->
         FRound(FMul(FMul(FromInt(popData.totalPopulation),
                          FSub(FromInt(1), zone.mortalityRate)),
                     FRatio(8, 10))),
     mortalityRate      |-> zone.mortalityRate,
     affectedCities     |-> popData.affectedCities]

\* largestZoneCities of lines 357-360: the cities of the first zone whose
\* radius is above that of every zone before it and below that of none after
LargestZoneCities(detailedZones) ==
    The({ IF largest = {} THEN <<>>
          ELSE detailedZones[CHOOSE i \in largest : TRUE].affectedCities :
          largest \in
              { { i \in 1..Len(detailedZones) :
                    /\ FLess(FZero, detailedZones[i].radius)
                    /\ \A j \in 1..Len(detailedZones) :
                           IF j < i
                           THEN FLess(detailedZones[j].radius, detailedZones[i].radius)
                           ELSE FLessEq(detailedZones[j].radius,
                                        detailedZones[i].radius) } } })

\* the object calculateCasualties returns (lines 366-378), without severity
\* and note
CalculateCasualties(detailedZones) ==
    The({ The({ [estimatedCasualties |-> totalCasualties,
                 estimatedInjured    |-> totalInjured,
                 totalAffected       |-> totalCasualties + totalInjured,
                 zones               |-> detailedZones,
                 affectedCities      |-> LargestZoneCities(detailedZones)] :
                totalInjured \in { detailedZones[1].injured + detailedZones[2].injured
                                     + detailedZones[3].injured
                                     + detailedZones[4].injured } }) :
          totalCasualties \in { detailedZones[1].casualties + detailedZones[2].casualties
                                  + detailedZones[3].casualties
                                  + detailedZones[4].casualties } })

\* simulateImpact(params) down to the call of calculateCasualties: the
\* parameters with their defaults and the values computed from them, and the
\* detailedZones calculateCasualties starts with
ImpactLocals(p) ==
    LET angle          == OrDefault(p.angle, 45)
        density        == OrDefault(p.density, DEFAULT_ASTEROID_DENSITY)
        impactLocation == IF p.impactLocation = UndefinedObject
                          THEN DefaultImpactLocation ELSE p.impactLocation
    IN  The({ The({ [diameter       |-> p.diameter,
                     mass           |-> mass,
                     velocity       |-> finalVelocity,
                     density        |-> density,
                     angle          |-> angle,
                     energy         |-> energy,
                     crater         |-> CraterFor(impactLocation, energy.joules, angle),
                     seismic        |-> CalculateSeismicEffects(Sci(energy.joules, 12)),
                     blast          |-> CalculateBlastRadius(energy.joules),
                     detailedZones  |-> <<>>,
                     tsunami        |-> TsunamiFor(impactLocation, energy.joules),
                     impactLocation |-> impactLocation] :
                    energy \in {CalculateImpactEnergy(mass, finalVelocity)} }) :
              mass \in {CalculateMass(p.diameter, density)},
              finalVelocity \in {CalculateImpactVelocity(p.velocity, angle)} })

\* the object simulateImpact returns (lines 277-292)
ImpactResult(l) ==
    [asteroidProperties |-> [diameter |-> l.diameter, mass |-> l.mass,
                             velocity |-> l.velocity, density |-> l.density,
                             angle |-> l.angle],
     energy         |-> l.energy,
     crater         |-> l.crater,
     seismic        |-> l.seismic,
     blast          |-> l.blast,
     tsunami        |-> l.tsunami,
     casualties     |-> CalculateCasualties(l.detailedZones),
     impactLocation |-> l.impactLocation]

\* the zones of calculateCasualties: fireball, thermal, airblast, radiation
ZoneCount == 4

\* an activation of simulateImpact that has not started
IdleImpact(p) ==
    [pc |-> "idle", params |-> p, locals |-> Null, zone |-> 0, awaits |-> 0,
     result |-> Null]

\* calculateDeflection(params): requiredDeltaV in um/s, impactorMass in kg,
\* warningTimeNeeded in millions, successProbability in percent, the
\* efficiency in hundredths
Efficiency(method) ==
    IF method = "kinetic" THEN 50
    ELSE IF method = "gravity" THEN 1
    ELSE IF method = "nuclear" THEN 1000
    ELSE 100

\* a mission that is still feasible at 30 days and with 50000 kg
FeasibleInclusive(warningTime, impactorMass) ==
    warningTime >= 30 /\ impactorMass <= 50000

\* feasible: warningTime > 30 && impactorMass < 50000
Feasible(warningTime, impactorMass) == warningTime > 30 /\ impactorMass < 50000

\* steps that are already taken at 365, 180 and 90 days
SuccessProbabilityFrom(warningTime) ==
    IF warningTime >= 365 THEN 90
    ELSE IF warningTime >= 180 THEN 70
    ELSE IF warningTime >= 90 THEN 50
    ELSE 20

\* successProbability in percent
SuccessProbability(warningTime) ==
    IF warningTime > 365 THEN 90
    ELSE IF warningTime > 180 THEN 70
    ELSE IF warningTime > 90 THEN 50
    ELSE 20

CalculateDeflection(p) ==
    The({ The({ [method            |-> method,
                 requiredDeltaV    |-> requiredDeltaV,
                 impactorMass      |-> impactorMass,
                 feasible          |-> Feasible(p.warningTime, impactorMass),
                 warningTimeNeeded |-> Quot(Quot(p.asteroidMass, 1000) * p.missDistance,
                                            Efficiency(method)),
                 successProbability |-> SuccessProbability(p.warningTime)] :
                impactorMass \in
                    { Quot(Quot(p.asteroidMass, 1000) * Quot(requiredDeltaV, 100),
                           Efficiency(method)) * 10 } }) :
          method \in {IF p.method = UndefinedString THEN "kinetic" ELSE p.method},
          requiredDeltaV \in {Quot(Quot(p.missDistance * 100000, p.warningTime) * 25, 216)} })

\* !x for a number or undefined
Falsy(x) == x = Undefined \/ x = 0

\* POST /api/simulate/deflection: the response to the request body
DeflectionRoute(body) ==
    IF Falsy(body.asteroidDiameter) \/ Falsy(body.warningTime) \/ Falsy(body.missDistance)
    THEN [status |-> 400]
    ELSE The({ [status       |-> 200,
                deflection   |-> CalculateDeflection(
                                    [asteroidMass |-> asteroidMass,
                                     warningTime  |-> body.warningTime,
                                     missDistance |-> body.missDistance,
                                     method       |-> body.method]),
                asteroidMass |-> asteroidMass] :
               asteroidMass \in { CalculateMass(body.asteroidDiameter,
                                      OrDefault(body.asteroidDensity, 3000)) } })

\* a request that was not handled yet
IdleDeflection(body) == [pc |-> "idle", body |-> body, response |-> Null]

-----------------------------------------------------------------------------
(* Initial states: a caller builds two simulations from ONE params object   *)
(* with createSimulation and is about to call run() on each.                *)

\* a caller's scenario: the params of createSimulation and the arguments of
\* the two run() calls
Scenario(pos, vel, radiusKm, maxSteps, dt, onProgress) ==
    [position |-> pos, velocity |-> vel, radiusKm |-> radiusKm,
     maxSteps |-> maxSteps, dt |-> dt, onProgress |-> onProgress]

\* km/s in the model's velocity unit
KmS(v) == v * Micro

ShortScenarios ==
    { \* on the boundary R_earth + R_asteroid, at rest
      Scenario(Vec(6372, 0, 0), ZeroVec, 1, <<3, 1>>, <<DefaultDt, 1>>, <<TRUE, FALSE>>),
      \* on the boundary, falling
      Scenario(Vec(6372, 0, 0), Vec(KmS(0 - 20), 0, 0), 1, <<3, 1>>, <<DefaultDt, 1>>,
               <<FALSE, FALSE>>),
      \* on the boundary, leaving
      Scenario(Vec(6372, 0, 0), Vec(KmS(20), 0, 0), 1, <<3, 1>>, <<DefaultDt, 1>>,
               <<FALSE, TRUE>>),
      \* on the boundary off the axes (3825^2 + 5100^2 = 6375^2), at rest
      Scenario(Vec(3825, 5100, 0), ZeroVec, 4, <<2, 0>>, <<DefaultDt, DefaultDt>>,
               <<TRUE, TRUE>>),
      \* approaching from 10000 km, seen from the pole
      Scenario(Vec(0, 0, 10000), Vec(0, 0, KmS(0 - 20)), 1, <<100, 5>>,
               <<DefaultDt, DefaultDt>>, <<TRUE, TRUE>>),
      \* approaching just south of the 180th meridian in steps of 100 s
      Scenario(Vec(0 - 14700, 0 - 50, 0), Vec(KmS(10), 0, 0), 1, <<12, 12>>,
               <<100, 100>>, <<FALSE, FALSE>>) }

EscapeScenarios ==
    { \* at rest outside the 2,000,000 km sphere
      Scenario(Vec(0 - 2100000, 0, 0), ZeroVec, 1, <<1500, 1000>>,
               <<DefaultDt, DefaultDt>>, <<TRUE, TRUE>>),
      \* leaves the sphere on step 1002
      Scenario(Vec(1799700, 0, 0), Vec(KmS(20), 0, 0), 1, <<1200, 3>>,
               <<DefaultDt, DefaultDt>>, <<TRUE, FALSE>>),
      \* leaves the sphere on step 5000, the step after which run yields
      Scenario(Vec(0, 1000100, 0), Vec(0, KmS(20), 0), 1, <<6000, 3>>,
               <<DefaultDt, DefaultDt>>, <<TRUE, FALSE>>) }

LongScenarios ==
    { \* far away and slow: neither collides nor escapes
      Scenario(Vec(500000, 0, 0), ZeroVec, 1, <<MaxStepsLong, 3>>,
               <<DefaultDt, DefaultDt>>, <<TRUE, FALSE>>) }

\* the caller's params object
ParamsOf(sc) ==
    [asteroidRadiusKm  |-> sc.radiusKm,
     asteroidDensityKg |-> 2500,
     initialPositionKm |-> <<0, "initialPositionKm">>,
     initialVelocityKmS |-> <<0, "initialVelocityKmS">>]

\* the heap with the caller's two Vector3D objects on it
CallerHeap(sc) ==
    [r \in Refs |-> IF r = <<0, "initialPositionKm">> THEN sc.position
                    ELSE IF r = <<0, "initialVelocityKmS">> THEN sc.velocity
                    ELSE ZeroVec]

\* the heap after the allocations in alloc (a set of <<ref, value>>)
Allocate(h, alloc) ==
    [r \in Refs |-> IF \E a \in alloc : a[1] = r
                    THEN (CHOOSE a \in alloc : a[1] = r)[2]
                    ELSE h[r]]

\* an activation of run() that has not started
IdleCall(i, maxSteps, dt, onProgress) ==
    [sim |-> i, maxSteps |-> maxSteps, dt |-> dt, onProgress |-> onProgress,
     pc |-> "idle", stepCount |-> 0, result |-> Null]

\* what is observed of an activation: how it left the loop, the steps since
\* it last yielded, its yields, the stepCount at which the host reset its
\* simulation under it (-1: never), whether it started while another
\* activation was suspended
NoTrace ==
    [exit |-> "none", sinceYield |-> 0, yields |-> 0, cancelledAt |-> 0 - 1,
     overlap |-> FALSE]

\* the state once the caller has built its two simulations; run() call c is
\* to be made on simulation simOf[c]
InitScenarioOn(sc, simOf) ==
    LET h0 == CallerHeap(sc)
        p  == ParamsOf(sc)
        c1 == CreateSimulation(1, h0, p)
        h1 == Allocate(h0, c1.alloc)
        c2 == CreateSimulation(2, h1, p)
        h2 == Allocate(h1, c2.alloc)
        cs == [i \in SimIds |-> IF i = 1 THEN c1 ELSE c2]
    IN  /\ heap = h2
        /\ params = p
        /\ earth = [i \in SimIds |-> cs[i].earth]
        /\ asteroid = [i \in SimIds |-> cs[i].asteroid]
        /\ sim = [i \in SimIds |-> cs[i].sim]
        /\ call = [c \in CallIds |->
                      IdleCall(simOf[c], sc.maxSteps[c], sc.dt[c], sc.onProgress[c])]
        /\ thread = 0
        /\ progressLog = [c \in CallIds |-> <<>>]
        /\ trace = [c \in CallIds |-> NoTrace]
        /\ resets = 0

\* one run() call on each simulation
InitScenario(sc) == InitScenarioOn(sc, [c \in CallIds |-> c])

\* the parameters of simulateImpact: diameter in m, velocity in m/s
ImpactParams(diameter, velocity, angle, density, impactLocation) ==
    [diameter |-> diameter, velocity |-> velocity, angle |-> angle,
     density |-> density, impactLocation |-> impactLocation]

\* the impactLocation objects the route builds (isOcean = elevation <= 0;
\* lat and lon in 1/10000 degree) and the parameter left out
ImpactLocations ==
    { UndefinedObject,
      [lat |-> 480000, lon |-> 20000, isOcean |-> FALSE, depth |-> 0],
      [lat |-> 488600, lon |-> 26500, isOcean |-> FALSE, depth |-> 0],
      [lat |-> 0, lon |-> 0 - 300000, isOcean |-> TRUE, depth |-> 4000],
      [lat |-> 0, lon |-> 0 - 300000, isOcean |-> TRUE, depth |-> Undefined],
      [lat |-> 520000, lon |-> 50000, isOcean |-> TRUE, depth |-> 0] }

\* the documented example: 100 m at 20 km/s and 45 degrees, 3000 kg/m^3, on
\* land
KineticEnergyExample ==
    ImpactParams(100, 20000, 45, 3000,
                 [lat |-> 480000, lon |-> 20000, isOcean |-> FALSE, depth |-> 0])

ImpactInputs ==
    { ImpactParams(d, v, a, rho, loc) :
        d \in {20, 140}, v \in {12000, 20000}, a \in {Undefined, 0, 30, 90},
        rho \in {Undefined, 2000}, loc \in ImpactLocations }
    \cup {KineticEnergyExample}

\* the request body of the deflection route
DeflectionBody(asteroidDiameter, asteroidDensity, warningTime, missDistance, method) ==
    [asteroidDiameter |-> asteroidDiameter, asteroidDensity |-> asteroidDensity,
     warningTime |-> warningTime, missDistance |-> missDistance, method |-> method]

DeflectionBodies ==
    { DeflectionBody(d, rho, t, m, method) :
        d \in {Undefined, 20, 140}, rho \in {Undefined, 2000},
        t \in {0, 20, 30, 31, 90, 91, 180, 181, 365, 366, 3650},
        m \in {Undefined, 1000, 6400},
        method \in {UndefinedString, "kinetic", "gravity", "nuclear", "laser"} }

\* a direct call of a service function that was not made yet
CalcCall(op, args) == [pc |-> "idle", op |-> op, args |-> args, out |-> Null]

\* no service function is called directly
NoCalc == CalcCall("none", Null)

\* the host has called nothing but run()
NoHost == [op |-> "none", steps |-> 0, out |-> Null]

\* the API server is not started
NoServer == [pc |-> "off"]

\* the integrator alone: no request is handled
NoRequests ==
    /\ impact = IdleImpact(ImpactParams(140, 20000, 45, 3000, UndefinedObject))
    /\ deflect = IdleDeflection(DeflectionBody(140, Undefined, 3650, 6400, "kinetic"))
    /\ calc = NoCalc
    /\ host = NoHost
    /\ server = NoServer

Init ==
    /\ \E sc \in ShortScenarios \cup EscapeScenarios \cup LongScenarios : InitScenario(sc)
    /\ NoRequests

-----------------------------------------------------------------------------
(* run(maxSteps, dt, onProgress) *)

\* a loop that takes one step more than its budget
LoopCondInclusive(stepCount, maxSteps, collisionDetected) ==
    stepCount <= maxSteps /\ ~collisionDetected

\* the while condition of run
LoopCond(stepCount, maxSteps, collisionDetected) ==
    stepCount < maxSteps /\ ~collisionDetected

\* the count tested before it is incremented
ProgressDueBefore(stepCount) == (stepCount - 1) % ProgressEvery = 0

\* onProgress is due
ProgressDue(stepCount) == stepCount % ProgressEvery = 0

\* the count tested before it is incremented
YieldDueBefore(stepCount) == (stepCount - 1) % YieldEvery = 0

\* the loop yields to the host
YieldDue(stepCount) == stepCount % YieldEvery = 0

\* a check that is already made on step 1000
EscapeDueFrom1000(stepCount, currentDist) ==
    stepCount >= EscapeAfterSteps /\ currentDist > EscapeDistanceKm

\* the safety check: the asteroid is moving away
EscapeDue(stepCount, currentDist) ==
    stepCount > EscapeAfterSteps /\ currentDist > EscapeDistanceKm

\* the world w written back to simulation i
Store(i, w) ==
    /\ heap' = w.heap
    /\ earth' = [earth EXCEPT ![i] = w.earth]
    /\ asteroid' = [asteroid EXCEPT ![i] = w.asteroid]
    /\ sim' = [sim EXCEPT ![i] = w.sim]

\* a run that answers null whatever happened
RunResultNull(s) == Null

\* the value run returns: this.collisionInfo
RunResult(s) == s.collisionInfo

\* lines 248-249: this.isRunning = false; return this.collisionInfo
Return(c, w, exit) ==
    /\ Store(call[c].sim, [w EXCEPT !.sim.isRunning = FALSE])
    /\ call' = [call EXCEPT ![c].pc = "done", ![c].result = RunResult(w.sim)]
    /\ trace' = [trace EXCEPT ![c].exit = exit]
    /\ thread' = 0

\* lines 238-245 with stepCount n on world w, then the loop or the return
SafetyCheck(c, w, n) ==
    IF EscapeDue(n, GetDistance(w, w.heap[w.earth.position]))
    THEN /\ Store(call[c].sim, [w EXCEPT !.sim.isRunning = FALSE])
         /\ call' = [call EXCEPT ![c].pc = "done", ![c].stepCount = n,
                                 ![c].result = RunResult(w.sim)]
         /\ thread' = 0
         /\ trace' = [trace EXCEPT ![c].exit = "escaped",
                                   ![c].sinceYield = IF call[c].pc = "await" THEN 0 ELSE @ + 1]
    ELSE /\ Store(call[c].sim, w)
         /\ call' = [call EXCEPT ![c].pc = "loop", ![c].stepCount = n]
         /\ thread' = c
         /\ trace' = [trace EXCEPT ![c].sinceYield = IF call[c].pc = "await" THEN 0 ELSE @ + 1]

\* the host calls run(): the body runs up to the loop
RunStart(c) ==
    /\ thread = 0
    /\ call[c].pc = "idle"
    /\ sim' = [sim EXCEPT ![call[c].sim].isRunning = TRUE]
    /\ call' = [call EXCEPT ![c].pc = "loop", ![c].stepCount = 0]
    /\ thread' = c
    /\ trace' = [trace EXCEPT ![c].overlap = \E d \in CallIds : call[d].pc = "await"]
    /\ UNCHANGED <<heap, params, earth, asteroid, progressLog, resets, impact, deflect,
                   calc, host, server>>

\* one iteration of the loop: step, count, report, yield or safety check
RunIter(c) ==
    /\ thread = c
    /\ call[c].pc = "loop"
    /\ LoopCond(call[c].stepCount, call[c].maxSteps, sim[call[c].sim].collisionDetected)
    /\ \E w \in {Step(World(call[c].sim), call[c].dt, FALSE, Null)} :
       LET n == call[c].stepCount + 1
       IN  /\ progressLog' =
                 IF call[c].onProgress /\ ProgressDue(n)
                 THEN [progressLog EXCEPT ![c] =
                          Append(@, [stepCount |-> n, num |-> n * 100,
                                     den |-> call[c].maxSteps])]
                 ELSE progressLog
           /\ IF YieldDue(n)
              THEN /\ Store(call[c].sim, w)
                   /\ call' = [call EXCEPT ![c].pc = "await", ![c].stepCount = n]
                   /\ thread' = 0
                   /\ trace' = [trace EXCEPT ![c].sinceYield = @ + 1, ![c].yields = @ + 1]
              ELSE SafetyCheck(c, w, n)
    /\ UNCHANGED <<params, resets, impact, deflect, calc, host, server>>

\* the loop condition fails: run returns
RunExit(c) ==
    /\ thread = c
    /\ call[c].pc = "loop"
    /\ ~LoopCond(call[c].stepCount, call[c].maxSteps, sim[call[c].sim].collisionDetected)
    /\ Return(c, World(call[c].sim),
              IF sim[call[c].sim].collisionDetected THEN "collision" ELSE "budget")
    /\ UNCHANGED <<params, progressLog, resets, impact, deflect, calc, host, server>>

\* the timer fires: the loop goes on after the await with the safety check
Resume(c) ==
    /\ thread = 0
    /\ call[c].pc = "await"
    /\ SafetyCheck(c, World(call[c].sim), call[c].stepCount)
    /\ UNCHANGED <<params, progressLog, resets, impact, deflect, calc, host, server>>

\* the host calls reset() on the simulation of a run that is suspended
ResetDuringRun(c) ==
    /\ thread = 0
    /\ call[c].pc = "await"
    /\ resets < MaxResets
    /\ resets' = resets + 1
    /\ sim' = [sim EXCEPT ![call[c].sim] = ResetSim(@)]
    /\ trace' = [trace EXCEPT ![c].cancelledAt = call[c].stepCount]
    /\ UNCHANGED <<heap, params, earth, asteroid, call, thread, progressLog, impact,
                   deflect, calc, host, server>>

-----------------------------------------------------------------------------
(* simulateImpact(params): an async function.  It runs down to the call of  *)
(* calculateCasualties, which runs down to its first                        *)
(* await populationService.getPopulationInRadius(...) and suspends, and so  *)
(* suspends simulateImpact at its own await; calculateCasualties is resumed *)
(* once per zone, and simulateImpact once calculateCasualties has returned. *)

\* simulateImpact is called: lines 236-271 and 302-340
ImpactStart ==
    /\ thread = 0
    /\ impact.pc = "idle"
    /\ impact' = [impact EXCEPT !.pc = "zone", !.locals = ImpactLocals(impact.params),
                                !.zone = 1, !.awaits = 2]
    /\ UNCHANGED <<heap, params, earth, asteroid, sim, call, thread, progressLog,
                   trace, resets, deflect, calc, host, server>>

\* the population of a zone has arrived: lines 342-363, then the next zone's
\* await or the return of calculateCasualties
ImpactZone ==
    /\ thread = 0
    /\ impact.pc = "zone"
    /\ \E zone \in {Zones(impact.locals.blast)[impact.zone]} :
         \E popData \in {GetPopulationInRadius(impact.locals.impactLocation.lat,
                                                impact.locals.impactLocation.lon,
                                                zone.radius)} :
            impact' = IF impact.zone < ZoneCount
                      THEN [impact EXCEPT
                                !.locals.detailedZones =
                                    Append(@, DetailedZone(zone, popData)),
                                !.zone = @ + 1, !.awaits = @ + 1]
                      ELSE [impact EXCEPT
                                !.locals.detailedZones =
                                    Append(@, DetailedZone(zone, popData)),
                                !.pc = "casualties"]
    /\ UNCHANGED <<heap, params, earth, asteroid, sim, call, thread, progressLog,
                   trace, resets, deflect, calc, host, server>>

\* the casualties have arrived: simulateImpact returns its result
ImpactReturn ==
    /\ thread = 0
    /\ impact.pc = "casualties"
    /\ impact' = [impact EXCEPT !.pc = "done", !.result = ImpactResult(impact.locals)]
    /\ UNCHANGED <<heap, params, earth, asteroid, sim, call, thread, progressLog,
                   trace, resets, deflect, calc, host, server>>

NextImpact == ImpactStart \/ ImpactZone \/ ImpactReturn

\* POST /api/simulate/deflection: the handler has no await
DeflectionRequest ==
    /\ thread = 0
    /\ deflect.pc = "idle"
    /\ deflect' = [deflect EXCEPT !.pc = "done", !.response = DeflectionRoute(deflect.body)]
    /\ UNCHANGED <<heap, params, earth, asteroid, sim, call, thread, progressLog,
                   trace, resets, impact, calc, host, server>>

NextDeflect == DeflectionRequest

NextRun ==
    \/ \E c \in CallIds : RunStart(c)
    \/ \E c \in CallIds : RunIter(c)
    \/ \E c \in CallIds : RunExit(c)
    \/ \E c \in CallIds : Resume(c)
    \/ \E c \in CallIds : ResetDuringRun(c)

Next == NextRun

Spec == Init /\ [][Next]_vars

\* The event loop runs every continuation that is ready: a run() that holds
\* the thread goes on to its next await or return, and a timer set by
\* setTimeout(resolve, 0) fires.
SpecFair ==
    Spec /\ \A c \in CallIds : WF_vars(RunIter(c) \/ RunExit(c) \/ Resume(c))

\* The core on one thread: run() of two simulations and an activation of
\* simulateImpact, each taking the thread when the event loop is idle.
InitCore ==
    /\ \E sc \in LongScenarios : InitScenario(sc)
    /\ \E p \in { ImpactParams(140, 20000, 45, Undefined, loc) :
                       loc \in {l \in ImpactLocations : l # UndefinedObject /\ l.depth = 0
                                                       /\ l.lat >= 488600} } :
           impact = IdleImpact(p)
    /\ deflect = IdleDeflection(DeflectionBody(140, Undefined, 3650, 6400, "kinetic"))
    /\ calc = NoCalc
    /\ host = NoHost
    /\ server = NoServer

NextCore == NextRun \/ NextImpact

SpecCore == InitCore /\ [][NextCore]_vars

\* simulateImpact alone, on every input
InitImpact ==
    /\ \E sc \in LongScenarios : InitScenario(sc)
    /\ \E p \in ImpactInputs : impact = IdleImpact(p)
    /\ deflect = IdleDeflection(DeflectionBody(140, Undefined, 3650, 6400, "kinetic"))
    /\ calc = NoCalc
    /\ host = NoHost
    /\ server = NoServer

SpecImpact == InitImpact /\ [][NextImpact]_vars

\* the deflection route alone, on every request body
InitDeflect ==
    /\ \E sc \in LongScenarios : InitScenario(sc)
    /\ impact = IdleImpact(ImpactParams(140, 20000, 45, 3000, UndefinedObject))
    /\ \E b \in DeflectionBodies : deflect = IdleDeflection(b)
    /\ calc = NoCalc
    /\ host = NoHost
    /\ server = NoServer

SpecDeflect == InitDeflect /\ [][NextDeflect]_vars

-----------------------------------------------------------------------------
(* Direct calls of the service functions: a caller hands one function its   *)
(* arguments and receives what it returns.                                  *)

\* the params objects of calculateDeflection: asteroidMass in tonnes,
\* warningTime in days, missDistance in km
DeflectionParams ==
    { [asteroidMass |-> mass, warningTime |-> t, missDistance |-> m, method |-> method] :
        mass \in {12564, 4310265, 4999000, 5000000},
        t \in {20, 30, 31, 90, 91, 100, 180, 181, 365, 366, 3650},
        m \in {864, 6400},
        method \in {UndefinedString, "kinetic", "gravity", "nuclear"} }

\* physicsEngine.calculateDeflection(params)
CallCalculateDeflection ==
    /\ calc.pc = "idle"
    /\ calc.op = "calculateDeflection"
    /\ calc' = [calc EXCEPT !.pc = "done", !.out = CalculateDeflection(calc.args)]
    /\ UNCHANGED <<heap, params, earth, asteroid, sim, call, thread, progressLog,
                   trace, resets, impact, deflect, host, server>>

\* the energies calculateSeismicEffects is called with, in J: from 1 kJ to
\* the 4e23 J of the Chicxulub impact
SeismicEnergies ==
    { Sci(m, e) : m \in {1, 4, 15, 16, 99}, e \in {3, 6, 7, 9, 12, 15, 17, 20, 23} }

\* physicsEngine.calculateSeismicEffects(energy)
CallCalculateSeismicEffects ==
    /\ calc.pc = "idle"
    /\ calc.op = "calculateSeismicEffects"
    /\ calc' = [calc EXCEPT !.pc = "done", !.out = CalculateSeismicEffects(calc.args)]
    /\ UNCHANGED <<heap, params, earth, asteroid, sim, call, thread, progressLog,
                   trace, resets, impact, deflect, host, server>>

\* the arguments calculateOverlapArea is called with: distances and blast
\* radii in 1/512 km, around the tangent positions of a blast disc and a city
\* disc of 12, 20 and 40 km
OverlapArguments ==
    { [distance |-> FNorm(d, 0 - 9), blastRadius |-> FNorm(b, 0 - 9),
       cityRadius |-> FromInt(c)] :
        d \in {0, 5632, 6016, 6022, 6136, 6144, 6152, 6264, 6270, 6272, 6392, 6400,
               10240, 20480, 32000},
        b \in {0, 128, 256, 6144, 10240, 25600},
        c \in {12, 20, 40} }

\* populationService.calculateOverlapArea(distance, blastRadius, cityRadius)
CallCalculateOverlapArea ==
    /\ calc.pc = "idle"
    /\ calc.op = "calculateOverlapArea"
    /\ calc' = [calc EXCEPT !.pc = "done",
                            !.out = CalculateOverlapArea(calc.args.distance,
                                                         calc.args.blastRadius,
                                                         calc.args.cityRadius)]
    /\ UNCHANGED <<heap, params, earth, asteroid, sim, call, thread, progressLog,
                   trace, resets, impact, deflect, host, server>>

\* the arguments getPopulationInRadius is called with: the places the
\* distances are tabulated for, radii in 1/64 km from 250 m to 400 km
PopulationArguments ==
    { [lat |-> place[1], lon |-> place[2], radiusKm |-> FNorm(r, 0 - 6)] :
        place \in { <<0, 0>>, <<480000, 20000>>, <<0, 0 - 300000>>, <<520000, 50000>>,
                    <<488600, 26500>>, <<488566, 23522>>, <<403300, 0 - 745800>> },
        r \in {16, 320, 3200, 3840, 25600} }

\* populationService.getPopulationInRadius(lat, lon, radiusKm)
CallGetPopulationInRadius ==
    /\ calc.pc = "idle"
    /\ calc.op = "getPopulationInRadius"
    /\ calc' = [calc EXCEPT !.pc = "done",
                            !.out = GetPopulationInRadius(calc.args.lat, calc.args.lon,
                                                          calc.args.radiusKm)]
    /\ UNCHANGED <<heap, params, earth, asteroid, sim, call, thread, progressLog,
                   trace, resets, impact, deflect, host, server>>

CalcCalls ==
    { CalcCall("calculateDeflection", p) : p \in DeflectionParams }
    \cup { CalcCall("getPopulationInRadius", a) : a \in PopulationArguments }
    \cup { CalcCall("calculateOverlapArea", a) : a \in OverlapArguments }
    \cup { CalcCall("calculateSeismicEffects", energy) : energy \in SeismicEnergies }

InitCalc ==
    /\ \E sc \in LongScenarios : InitScenario(sc)
    /\ impact = IdleImpact(ImpactParams(140, 20000, 45, 3000, UndefinedObject))
    /\ deflect = IdleDeflection(DeflectionBody(140, Undefined, 3650, 6400, "kinetic"))
    /\ calc \in CalcCalls
    /\ host = NoHost
    /\ server = NoServer

NextCalc ==
    \/ CallCalculateDeflection
    \/ CallCalculateSeismicEffects
    \/ CallCalculateOverlapArea
    \/ CallGetPopulationInRadius

SpecCalc == InitCalc /\ [][NextCalc]_vars

-----------------------------------------------------------------------------
(* solveKeplerEquation(meanAnomaly, eccentricity) of orbitalMechanics.ts,    *)
(* called directly, one pass of the for loop per step.                       *)

\* Infinity and -Infinity, the quotients of a non-zero number by 0
FInfinity == Float(0, 2)

FNegInfinity == Float(0, 3)

\* neither NaN nor infinite
FFinite(a) == a.m # 0 \/ a.e = 0

\* Math.abs(a) of a finite a
FAbs(a) == Float(Abs(a.m), a.e)

\* a / b, the divisor 0 included
FDivJs(a, b) ==
    IF a = FNaN \/ b = FNaN THEN FNaN
    ELSE IF b.m # 0 THEN FDiv(a, b)
    ELSE IF a.m = 0 THEN FNaN
    ELSE IF a.m > 0 THEN FInfinity ELSE FNegInfinity

\* a - b where b may be infinite and a is finite
FSubJs(a, b) ==
    IF b = FInfinity THEN FNegInfinity
    ELSE IF b = FNegInfinity THEN FInfinity
    ELSE FSub(a, b)

RECURSIVE Pow2Mod(_, _)
\* 2^k modulo p
Pow2Mod(k, p) == IF k = 0 THEN 1 % p ELSE (2 * Pow2Mod(k - 1, p)) % p

\* the argument reduction of Math.sin and Math.cos: x less the nearest
\* multiple of 2 pi, with the float nearest to 2 pi for 2 pi.  A float with a
\* larger exponent than 2 pi is a whole multiple of its last place, and the
\* remainder is taken exactly.
ReduceTwoPi(x) ==
    The({ IF x.e <= twoPi.e
          THEN The({ The({ FSub(x, turns) :
                           turns \in {FMul(FromInt(k), twoPi)} }) :
                     k \in { The({ FRound(q) : q \in {FDiv(x, twoPi)} }) } })
          ELSE The({ FNorm(IF 2 * rem > twoPi.m THEN rem - twoPi.m ELSE rem, twoPi.e) :
                     rem \in { ((x.m % twoPi.m) * Pow2Mod(x.e - twoPi.e, twoPi.m))
                                   % twoPi.m } }) :
          twoPi \in {FMul(FromInt(2), FPi)} })

RECURSIVE FSeries(_, _, _)
\* 1 - r2/d[k] * (1 - r2/d[k+1] * (... (1 - r2/d[n]))), from the innermost
\* term outward
FSeries(r2, d, k) ==
    IF k > Len(d) THEN FromInt(1)
    ELSE The({ The({ FSub(FromInt(1), term) : term \in {FMul(quot, tail)} }) :
               quot \in {FDiv(r2, FromInt(d[k]))},
               tail \in {FSeries(r2, d, k + 1)} })

\* sin of r with |r| <= pi / 2: the series up to r^11 / 11!
FSinSeries(r) ==
    The({ The({ The({ FMul(v, series) :
                      series \in {FSeries(r2, <<6, 20, 42, 72, 110>>, 1)} }) :
                r2 \in {FMul(v, v)} }) :
          v \in {r} })

\* Math.sin(x): NaN for NaN and the infinities; x less the nearest multiple
\* of 2 pi, folded into -pi/2..pi/2
FSin(x) ==
    IF ~FFinite(x) THEN FNaN
    ELSE The({ IF FLess(halfPi, r) THEN FSinSeries(FSub(FPi, r))
               ELSE IF FLess(r, FNeg(halfPi)) THEN FSinSeries(FSub(FNeg(FPi), r))
               ELSE FSinSeries(r) :
               r \in {ReduceTwoPi(x)}, halfPi \in {FDiv(FPi, FromInt(2))} })

\* cos of r with |r| <= pi / 2: the series up to r^12 / 12!
FCosSeries(r) ==
    The({ The({ FSeries(r2, <<2, 12, 30, 56, 90, 132>>, 1) : r2 \in {FMul(v, v)} }) :
          v \in {r} })

\* Math.cos(x), reduced and folded as the sine
FCos(x) ==
    IF ~FFinite(x) THEN FNaN
    ELSE The({ IF FLess(halfPi, r) THEN FNeg(FCosSeries(FSub(FPi, r)))
               ELSE IF FLess(r, FNeg(halfPi)) THEN FNeg(FCosSeries(FSub(FNeg(FPi), r)))
               ELSE FCosSeries(r) :
               r \in {ReduceTwoPi(x)}, halfPi \in {FDiv(FPi, FromInt(2))} })

\* tolerance = 1e-8
Tolerance == FRatio(1, 100000000)

MaxIterations == 20

\* the for loop's test i < maxIterations, passed once more
KeplerLoopCondInclusive(i) == i <= MaxIterations

\* i < maxIterations
KeplerLoopCond(i) == i < MaxIterations

\* Math.abs(deltaE) < tolerance
Converged(deltaE) ==
    \E d \in {deltaE}, t \in {Tolerance} : FFinite(d) /\ FLess(FAbs(d), t)

\* f / df of the loop body for a finite E
KeplerDelta(E, meanAnomaly, eccentricity) ==
    The({ The({ The({ FDivJs(f, df) :
                      f  \in { The({ FSub(d, meanAnomaly) : d \in {FSub(E, eSin)} }) },
                      df \in {FSub(FromInt(1), eCos)} }) :
                eSin \in {FMul(eccentricity, sinE)},
                eCos \in {FMul(eccentricity, cosE)} }) :
          sinE \in {FSin(E)}, cosE \in {FCos(E)} })

\* one pass of the loop body on E: deltaE = f / df and the new E
KeplerUpdate(E, meanAnomaly, eccentricity) ==
    The({ [deltaE |-> deltaE,
           E      |-> IF E = FNaN \/ deltaE = FNaN THEN FNaN
                      ELSE IF ~FFinite(E) THEN (IF FFinite(deltaE) THEN E ELSE FNaN)
                      ELSE FSubJs(E, deltaE)] :
          deltaE \in { IF ~FFinite(E) THEN FNaN
                       ELSE KeplerDelta(E, meanAnomaly, eccentricity) } })

\* the state of a call of solveKeplerEquation
KeplerCall(meanAnomaly, eccentricity) ==
    [pc |-> "idle", op |-> "solveKeplerEquation",
     args |-> [meanAnomaly |-> meanAnomaly, eccentricity |-> eccentricity],
     E |-> FZero, i |-> 0, deltaE |-> FNaN, out |-> Null]

\* mean anomalies over a turn, in thousandths of a radian, and 2 pi itself;
\* eccentricities from the circle to the parabola, in thousandths
KeplerArguments ==
    { KeplerCall(FRatio(m, 1000), FRatio(e, 1000)) :
         m \in {0, 10, 100, 1000, 3142, 6000, 6280},
         e \in {0, 100, 900, 999, 1000} }
    \cup { KeplerCall(FMul(FromInt(2), FPi), FromInt(1)) }

\* lines 85-88: the initial guess
KeplerEnter ==
    /\ calc.pc = "idle"
    /\ calc.op = "solveKeplerEquation"
    /\ calc' = [calc EXCEPT !.pc = "loop", !.E = calc.args.meanAnomaly, !.i = 0]
    /\ UNCHANGED <<heap, params, earth, asteroid, sim, call, thread, progressLog,
                   trace, resets, impact, deflect, host, server>>

\* lines 90-99: one pass of the loop, left by the break when converged
KeplerIterate ==
    /\ calc.pc = "loop"
    /\ KeplerLoopCond(calc.i)
    /\ \E u \in {KeplerUpdate(calc.E, calc.args.meanAnomaly, calc.args.eccentricity)} :
          calc' = [calc EXCEPT !.E = u.E, !.deltaE = u.deltaE,
                               !.i = IF Converged(u.deltaE) THEN @ ELSE @ + 1,
                               !.pc = IF Converged(u.deltaE) THEN "break" ELSE "loop"]
    /\ UNCHANGED <<heap, params, earth, asteroid, sim, call, thread, progressLog,
                   trace, resets, impact, deflect, host, server>>

\* line 102: return E, after the break or when the loop test fails
KeplerReturn ==
    /\ \/ calc.pc = "break"
       \/ calc.pc = "loop" /\ ~KeplerLoopCond(calc.i)
    /\ calc' = [calc EXCEPT !.pc = "done", !.out = calc.E]
    /\ UNCHANGED <<heap, params, earth, asteroid, sim, call, thread, progressLog,
                   trace, resets, impact, deflect, host, server>>

InitKepler ==
    /\ \E sc \in LongScenarios : InitScenario(sc)
    /\ impact = IdleImpact(ImpactParams(140, 20000, 45, 3000, UndefinedObject))
    /\ deflect = IdleDeflection(DeflectionBody(140, Undefined, 3650, 6400, "kinetic"))
    /\ calc \in KeplerArguments
    /\ host = NoHost
    /\ server = NoServer

NextKepler == KeplerEnter \/ KeplerIterate \/ KeplerReturn

\* the function is synchronous: once called it runs to its return
SpecKepler == InitKepler /\ [][NextKepler]_vars /\ WF_vars(NextKepler)

-----------------------------------------------------------------------------
(* The host uses ONE simulation freely: both run() calls are made on        *)
(* simulation 1, the second possibly while the first is suspended, and      *)
(* between the turns of the event loop the host calls step(), reset() and   *)
(* checkCollisions() itself.                                                *)

\* a dt of which two make more than one turn of the Earth
LongDt == 50000

HostScenarios ==
    { \* at Earth's centre, moving at 200 km/s
      Scenario(ZeroVec, Vec(KmS(200), 0, 0), 1, <<3, 2>>, <<DefaultDt, DefaultDt>>,
               <<FALSE, FALSE>>),
      \* at Earth's centre, at rest
      Scenario(ZeroVec, ZeroVec, 1, <<2, 2>>, <<DefaultDt, DefaultDt>>, <<FALSE, FALSE>>),
      \* approaching from 7000 km, seen from the pole: collides on step 4
      Scenario(Vec(0, 0, 7000), Vec(0, 0, KmS(0 - 20)), 1, <<100, 5>>,
               <<DefaultDt, DefaultDt>>, <<FALSE, FALSE>>),
      \* far away and slow: the first run is suspended after step 5000
      Scenario(Vec(500000, 0, 0), ZeroVec, 1, <<YieldEvery + 1, 3>>,
               <<DefaultDt, 20>>, <<FALSE, FALSE>>),
      \* beyond the reach of gravity at the model's resolution, in steps of
      \* more than half a sidereal day
      Scenario(Vec(700000, 0, 0), ZeroVec, 1, <<2, 1>>, <<LongDt, LongDt>>,
               <<FALSE, FALSE>>) }

\* the host calls step() with the default dt
HostStep ==
    /\ thread = 0
    /\ host.steps < MaxHostSteps
    /\ Store(1, Step(World(1), DefaultDt, FALSE, Null))
    /\ host' = [op |-> "step", steps |-> host.steps + 1, out |-> Null]
    /\ UNCHANGED <<params, call, thread, progressLog, trace, resets, impact, deflect,
                   calc, server>>

\* the host calls reset()
HostReset ==
    /\ thread = 0
    /\ resets < MaxResets
    /\ resets' = resets + 1
    /\ sim' = [sim EXCEPT ![1] = ResetSim(@)]
    /\ host' = [host EXCEPT !.op = "reset", !.out = Null]
    /\ UNCHANGED <<heap, params, earth, asteroid, call, thread, progressLog, trace,
                   impact, deflect, calc, server>>

\* the host calls checkCollisions(): its value is the collision info or null
HostCheckCollisions ==
    /\ thread = 0
    /\ host.op # "checkCollisions"
    /\ \E w \in {CheckCollisions(World(1))} :
          /\ Store(1, w)
          /\ host' = [host EXCEPT
                         !.op = "checkCollisions",
                         !.out = IF w.sim.collisionDetected
                                    /\ Collides(GetDistance(w, w.heap[w.earth.position]),
                                                w.earth.radiusKm, w.asteroid.radiusKm)
                                 THEN w.sim.collisionInfo ELSE Null]
    /\ UNCHANGED <<params, call, thread, progressLog, trace, resets, impact, deflect,
                   calc, server>>

InitHost ==
    /\ \E sc \in HostScenarios : InitScenarioOn(sc, [c \in CallIds |-> 1])
    /\ NoRequests

NextHost ==
    \/ \E c \in CallIds : RunStart(c)
    \/ \E c \in CallIds : RunIter(c)
    \/ \E c \in CallIds : RunExit(c)
    \/ \E c \in CallIds : Resume(c)
    \/ HostStep
    \/ HostReset
    \/ HostCheckCollisions

SpecHost == InitHost /\ [][NextHost]_vars

-----------------------------------------------------------------------------
(* The API server of index.js and its USGS service: the rate limiter, the    *)
(* health route, POST /api/usgs/analyze-zone and POST /api/simulate/impact   *)
(* as far as the zone analysis and the location handed to simulateImpact.    *)
(* A request is handled in one step; between requests the elevation API goes *)
(* down and comes back, cache entries reach their TTL and the limiter's      *)
(* window ends.                                                              *)

\* max of the limiter: requests per window and IP
RateLimitMax == 100

\* the client addresses
Ips == {"client"}

\* what the elevation API answers for a point (response.data.value, metres):
\* the mid-Atlantic, the Gulf of Guinea, and the south-west of France
ElevationData(lat, lon) ==
    IF lon = 0 - 30 THEN 0 - 3000
    ELSE IF lat = 0 THEN 0 - 4900
    ELSE 50

\* USGSService.classifyTerrain(elevation, isOcean)
ClassifyTerrain(elevation, isOcean) ==
    IF isOcean
    THEN IF Abs(elevation) < 200 THEN "Shallow Ocean/Continental Shelf"
         ELSE IF Abs(elevation) < 1000 THEN "Ocean"
         ELSE IF Abs(elevation) < 4000 THEN "Deep Ocean"
         ELSE "Abyssal Ocean"
    ELSE IF elevation < 100 THEN "Lowland/Plains"
         ELSE IF elevation < 500 THEN "Hills"
         ELSE IF elevation < 1500 THEN "Mountains"
         ELSE IF elevation < 3000 THEN "High Mountains"
         ELSE "Extreme Altitude"

\* the object getElevation builds from the API's answer
ElevationResult(lat, lon, elevation) ==
    [latitude |-> lat, longitude |-> lon, elevation |-> elevation,
     isOcean |-> elevation <= 0,
     waterDepth |-> IF elevation <= 0 THEN Abs(elevation) ELSE 0,
     terrainType |-> ClassifyTerrain(elevation, elevation <= 0),
     error |-> UndefinedString]

\* the object of getElevation's catch block
ElevationFallback(lat, lon) ==
    [latitude |-> lat, longitude |-> lon, elevation |-> 0, isOcean |-> FALSE,
     waterDepth |-> 0, terrainType |-> "unknown", error |-> "API unavailable"]

\* the cache keys `elevation_${latitude}_${longitude}` and
\* `zone_${latitude}_${longitude}_${radiusKm}`
ElevationKey(lat, lon) == <<"elevation", lat, lon, Undefined>>

ZoneKey(lat, lon, radiusKm) == <<"zone", lat, lon, radiusKm>>

\* the keys the requests of the model can touch
CacheKeys == {ElevationKey(45, 0 - 30), ZoneKey(45, 0 - 30, 100)}

\* this.cache.get(key): Null for a key that is absent, expired or never used
CacheGet(cache, key) == IF key \in DOMAIN cache THEN cache[key] ELSE Null

\* this.cache.set(key, value)
CacheSet(cache, key, value) ==
    [k \in DOMAIN cache \cup {key} |-> IF k = key THEN value ELSE cache[k]]

\* USGSService.getElevation(latitude, longitude) on a cache, with the
\* elevation API up or down: what it returns and the cache it leaves
GetElevation(cache, apiUp, lat, lon) ==
    IF CacheGet(cache, ElevationKey(lat, lon)) # Null
    THEN [result |-> CacheGet(cache, ElevationKey(lat, lon)), cache |-> cache]
    ELSE IF apiUp
    THEN [result |-> ElevationResult(lat, lon, ElevationData(lat, lon)),
          cache  |-> CacheSet(cache, ElevationKey(lat, lon),
                              ElevationResult(lat, lon, ElevationData(lat, lon)))]
    ELSE [result |-> ElevationFallback(lat, lon), cache |-> cache]

\* USGSService.analyzeImpactZone(latitude, longitude, radiusKm): the zone
\* analysis as far as its impactPoint (the terrain, seismicity and risk
\* fields are computed from the same answers and are left out), and the
\* cache it leaves
AnalyzeImpactZone(cache, apiUp, lat, lon, radiusKm) ==
    IF CacheGet(cache, ZoneKey(lat, lon, radiusKm)) # Null
    THEN [result |-> CacheGet(cache, ZoneKey(lat, lon, radiusKm)), cache |-> cache]
    ELSE The({ [result |-> [impactPoint |-> center.result],
                cache  |-> CacheSet(center.cache, ZoneKey(lat, lon, radiusKm),
                                    [impactPoint |-> center.result])] :
               center \in {GetElevation(cache, apiUp, lat, lon)} })

\* the limiter mounted on /api/: the request is counted, and refused once
\* the count of its IP in the window is above max
Limiter(s, ip) ==
    [pass   |-> s.hits[ip] + 1 <= RateLimitMax,
     server |-> [s EXCEPT !.hits[ip] = @ + 1]]

\* the answer of the limiter to a refused request
TooManyRequests ==
    [status |-> 429, body |-> "Too many requests from this IP, please try again later."]

\* a server that has just started: no request counted, nothing cached
IdleServer ==
    [pc |-> "listening", hits |-> [ip \in Ips |-> 0], apiUp |-> TRUE,
     cache |-> <<>>, request |-> Null, response |-> Null]

\* the request bodies of POST /api/usgs/analyze-zone
AnalyzeZoneBodies ==
    { [lat |-> lat, lon |-> lon, radiusKm |-> radiusKm] :
         lat \in {Undefined, 0, 45}, lon \in {Undefined, 0, 0 - 30},
         radiusKm \in {Undefined, 100} }

\* the request bodies of POST /api/simulate/impact
SimulateImpactBodies ==
    { [diameter |-> diameter, velocity |-> 20, impactLocation |-> loc] :
         diameter \in {Undefined, 140},
         loc \in {UndefinedObject, [lat |-> 45, lon |-> 0 - 30]} }

\* a request of ip is taken while its count is within the bound
Accepting(ip) ==
    /\ server.pc = "listening"
    /\ server.hits[ip] < RateLimitMax + MaxRejected

\* the server answers: the limiter first, then, if it lets the request
\* pass, what the route's handler has handled
Answer(ip, route, body, handled) ==
    /\ Accepting(ip)
    /\ \E lim \in {Limiter(server, ip)} :
         \E h \in {IF lim.pass THEN handled
                   ELSE [cache |-> lim.server.cache, response |-> TooManyRequests]} :
            server' = [lim.server EXCEPT
                          !.cache = h.cache,
                          !.request = [ip |-> ip, route |-> route, body |-> body],
                          !.response = h.response]
    /\ UNCHANGED <<heap, params, earth, asteroid, sim, call, thread, progressLog,
                   trace, resets, impact, deflect, calc, host>>

\* app.get('/api/health')
HealthHandler(s) ==
    [cache |-> s.cache, response |-> [status |-> 200, body |-> [status |-> "healthy"]]]

Health(ip) == Answer(ip, "GET /api/health", Null, HealthHandler(server))

\* app.post('/api/usgs/analyze-zone') for a request body
AnalyzeZoneHandler(s, body) ==
    IF Falsy(body.lat) \/ Falsy(body.lon)
    THEN [cache |-> s.cache,
          response |-> [status |-> 400, body |-> "Missing required parameters: lat, lon"]]
    ELSE The({ [cache |-> analysis.cache,
                response |-> [status |-> 200, body |-> analysis.result]] :
               analysis \in { AnalyzeImpactZone(s.cache, s.apiUp, body.lat, body.lon,
                                                IF body.radiusKm = Undefined THEN 100
                                                ELSE body.radiusKm) } })

AnalyzeZone(ip, body) ==
    Answer(ip, "POST /api/usgs/analyze-zone", body, AnalyzeZoneHandler(server, body))

\* app.post('/api/simulate/impact') for a request body: the validation, the
\* zone analysis, and the impactLocation handed to simulateImpact
SimulateImpactHandler(s, body) ==
    IF Falsy(body.diameter) \/ Falsy(body.velocity) \/ body.impactLocation = UndefinedObject
    THEN [cache |-> s.cache,
          response |-> [status |-> 400,
                        body |-> "Missing required parameters: diameter, velocity, impactLocation"]]
    ELSE The({ [cache |-> zoneAnalysis.cache,
                response |->
                   [status |-> 200,
                    body |-> [zoneAnalysis |-> zoneAnalysis.result,
                              impactLocation |->
                                 [lat |-> body.impactLocation.lat,
                                  lon |-> body.impactLocation.lon,
                                  isOcean |-> zoneAnalysis.result.impactPoint.isOcean,
                                  depth |-> zoneAnalysis.result.impactPoint.waterDepth]]]] :
               zoneAnalysis \in { AnalyzeImpactZone(s.cache, s.apiUp, body.impactLocation.lat,
                                                    body.impactLocation.lon, 100) } })

SimulateImpact(ip, body) ==
    Answer(ip, "POST /api/simulate/impact", body, SimulateImpactHandler(server, body))

\* the elevation API becomes unavailable
ApiFails ==
    /\ server.pc = "listening"
    /\ server.apiUp
    /\ server' = [server EXCEPT !.apiUp = FALSE]
    /\ UNCHANGED <<heap, params, earth, asteroid, sim, call, thread, progressLog,
                   trace, resets, impact, deflect, calc, host>>

\* the elevation API is available again
ApiRecovers ==
    /\ server.pc = "listening"
    /\ ~server.apiUp
    /\ server' = [server EXCEPT !.apiUp = TRUE]
    /\ UNCHANGED <<heap, params, earth, asteroid, sim, call, thread, progressLog,
                   trace, resets, impact, deflect, calc, host>>

\* stdTTL: a cache entry is two hours old and is dropped
CacheExpires(key) ==
    /\ server.pc = "listening"
    /\ key \in DOMAIN server.cache
    /\ server' = [server EXCEPT !.cache = [k \in DOMAIN server.cache \ {key} |-> server.cache[k]]]
    /\ UNCHANGED <<heap, params, earth, asteroid, sim, call, thread, progressLog,
                   trace, resets, impact, deflect, calc, host>>

\* windowMs: the limiter's window ends and the counts start again
WindowExpires ==
    /\ server.pc = "listening"
    /\ \E ip \in Ips : server.hits[ip] > 0
    /\ server' = [server EXCEPT !.hits = [ip \in Ips |-> 0]]
    /\ UNCHANGED <<heap, params, earth, asteroid, sim, call, thread, progressLog,
                   trace, resets, impact, deflect, calc, host>>

InitServer ==
    /\ \E sc \in LongScenarios : InitScenario(sc)
    /\ impact = IdleImpact(ImpactParams(140, 20000, 45, 3000, UndefinedObject))
    /\ deflect = IdleDeflection(DeflectionBody(140, Undefined, 3650, 6400, "kinetic"))
    /\ calc = NoCalc
    /\ host = NoHost
    /\ server = IdleServer

NextServer ==
    \/ \E ip \in Ips : Health(ip)
    \/ \E ip \in Ips : \E body \in AnalyzeZoneBodies : AnalyzeZone(ip, body)
    \/ \E ip \in Ips : \E body \in SimulateImpactBodies : SimulateImpact(ip, body)
    \/ ApiFails
    \/ ApiRecovers
    \/ \E key \in CacheKeys : CacheExpires(key)
    \/ WindowExpires

SpecServer == InitServer /\ [][NextServer]_vars

-----------------------------------------------------------------------------
(* Properties of the trajectory integrator *)

\* centre distance of simulation i's asteroid from its Earth
Dist(i) == GetDistance(World(i), heap[earth[i].position])

\* R_earth + R_asteroid of simulation i
ContactDistance(i) == earth[i].radiusKm + asteroid[i].radiusKm

\* simulation i's asteroid was placed exactly at the contact distance
PlacedOnBoundary(i) == Magnitude(HistFirst(asteroid[i].positions)) = ContactDistance(i)

\* C1 (as claimed): an asteroid placed exactly at centre distance
\* R_earth + R_asteroid has collisionDetected = true and collisionInfo set at the
\* end of the first step taken from that state, whatever its velocity.
C1_FirstStepOnBoundaryCollides ==
    \A i \in SimIds :
        (PlacedOnBoundary(i) /\ HistLen(asteroid[i].positions) = 2)
            => (sim[i].collisionDetected /\ sim[i].collisionInfo # Null)

\* C1 (amended): the test is inclusive and is made on the position at the END
\* of the step: a step that leaves the asteroid at centre distance
\* <= R_earth + R_asteroid ends with collisionDetected = true and collisionInfo
\* set (time of impact = totalTime), whatever the velocity; a step that leaves
\* it farther away raises no collision.
C1_CollisionTestedAfterStep ==
    [][\A i \in SimIds :
          HistLen(asteroid'[i].positions) > HistLen(asteroid[i].positions)
              => /\ (Dist(i)' <= ContactDistance(i))
                       => /\ sim'[i].collisionDetected
                          /\ sim'[i].collisionInfo # Null
                          /\ sim'[i].collisionInfo.timeToImpact = sim'[i].totalTime
                 /\ (Dist(i)' > ContactDistance(i) /\ ~sim[i].collisionDetected)
                       => /\ ~sim'[i].collisionDetected
                          /\ sim'[i].collisionInfo = Null]_vars

\* C1 witness: placed on the boundary, one step taken, the asteroid is still
\* exactly at the contact distance and the collision is detected
C1_Witness ==
    \E i \in SimIds :
        /\ PlacedOnBoundary(i)
        /\ HistLen(asteroid[i].positions) = 2
        /\ Dist(i) = ContactDistance(i)
        /\ sim[i].collisionDetected
        /\ sim[i].collisionInfo # Null

\* C2: run(maxSteps, dt) terminates: it never takes more than maxSteps steps,
\* takes no step while a collision is detected, every started run returns,
\* and a returned run leaves isRunning = false and has returned collisionInfo
\* or null.
C2_RunTerminates ==
    /\ [](\A c \in CallIds :
            /\ call[c].stepCount <= call[c].maxSteps
            /\ HistLen(asteroid[call[c].sim].positions) = 1 + call[c].stepCount
            /\ call[c].pc = "done"
                  => /\ ~sim[call[c].sim].isRunning
                     /\ call[c].result = sim[call[c].sim].collisionInfo)
    /\ [][\A c \in CallIds :
            call'[c].stepCount # call[c].stepCount
                => /\ call'[c].stepCount = call[c].stepCount + 1
                   /\ call[c].stepCount < call[c].maxSteps
                   /\ ~sim[call[c].sim].collisionDetected]_vars
    /\ \A c \in CallIds : (call[c].pc # "idle") ~> (call[c].pc = "done")

\* C2 witness: a run that returned on the step that detected the collision,
\* with budget left
C2_Witness ==
    \E c \in CallIds :
        /\ call[c].pc = "done"
        /\ trace[c].exit = "collision"
        /\ call[c].stepCount > 1
        /\ call[c].stepCount < call[c].maxSteps
        /\ sim[call[c].sim].totalTime = call[c].stepCount * call[c].dt

\* C3 (as claimed): the value run() returns tells the three outcomes apart:
\* two runs that ended in different ways returned different values.
C3_ResultTellsOutcome ==
    \A c, d \in CallIds :
        (call[c].pc = "done" /\ call[d].pc = "done" /\ trace[c].exit # trace[d].exit)
            => call[c].result # call[d].result

\* C3 (amended): the value run() returns tells a collision from no collision
\* only: it is the collision info exactly when the run ended on a collision,
\* and null both when the step budget ran out and when the escape check fired.
C3_ResultTellsCollisionOnly ==
    \A c \in CallIds :
        call[c].pc = "done"
            => /\ trace[c].exit \in {"collision", "budget", "escaped"}
               /\ (trace[c].exit = "collision") <=> (call[c].result # Null)
               /\ (trace[c].exit \in {"budget", "escaped"}) <=> (call[c].result = Null)
               /\ call[c].result # Null
                     => call[c].result.timeToImpact = sim[call[c].sim].totalTime

\* C3 witness: one run escaped, another exhausted its budget, both returned null
C3_Witness ==
    \E c, d \in CallIds :
        /\ call[c].pc = "done" /\ trace[c].exit = "escaped" /\ call[c].result = Null
        /\ call[d].pc = "done" /\ trace[d].exit = "budget" /\ call[d].result = Null

\* C4: run() aborts as escaped at the first step count k > 1000 at whose end
\* the distance exceeds 2,000,000 km and takes no further step; it never
\* aborts as escaped at k <= 1000 nor at a distance <= 2,000,000 km.
C4_EscapeHeuristic ==
    /\ [](\A c \in CallIds :
            /\ trace[c].exit = "escaped"
                  => /\ call[c].stepCount > EscapeAfterSteps
                     /\ Dist(call[c].sim) > EscapeDistanceKm
                     /\ call[c].pc = "done"
            /\ call[c].pc = "loop"
                  => ~(call[c].stepCount > EscapeAfterSteps
                          /\ Dist(call[c].sim) > EscapeDistanceKm))
    /\ [][\A c \in CallIds :
            \* no step is taken from a state in which the check is due
            /\ call'[c].stepCount # call[c].stepCount
                  => ~(call[c].stepCount > EscapeAfterSteps
                          /\ Dist(call[c].sim) > EscapeDistanceKm)
            \* a run that resumes with the check due returns at once
            /\ (call[c].pc = "await" /\ call'[c].pc # "await"
                   /\ call[c].stepCount > EscapeAfterSteps
                   /\ Dist(call[c].sim) > EscapeDistanceKm)
                  => (call'[c].pc = "done" /\ trace'[c].exit = "escaped")]_vars

\* C4 witness: a run that aborted on step 1002, the first step past 1000 that
\* ended outside the sphere (the step before ended inside it)
C4_Witness ==
    \E c \in CallIds :
        LET ps == asteroid[call[c].sim].positions
        IN  /\ trace[c].exit = "escaped"
            /\ call[c].stepCount > EscapeAfterSteps + 1
            /\ call[c].stepCount < call[c].maxSteps
            /\ HistLen(ps) = call[c].stepCount + 1
            /\ Magnitude(HistBeforeLast(ps)) <= EscapeDistanceKm
            /\ Magnitude(HistLast(ps)) > EscapeDistanceKm

\* C5: onProgress is invoked exactly at the executed step counts that are
\* multiples of 500, with stepCount / maxSteps * 100; the values increase
\* strictly in step order and never exceed 100.
C5_ProgressEvery500 ==
    \A c \in CallIds :
        LET log == progressLog[c]
        IN  /\ Len(log) = IF call[c].onProgress
                          THEN call[c].stepCount \div ProgressEvery ELSE 0
            /\ \A j \in 1..Len(log) :
                  /\ log[j].stepCount = ProgressEvery * j
                  /\ log[j].num = 100 * log[j].stepCount
                  /\ log[j].den = call[c].maxSteps
                  /\ log[j].num <= 100 * log[j].den
                  \* same denominator: the values compare as the numerators
                  /\ j > 1 => (log[j - 1].den = log[j].den /\ log[j - 1].num < log[j].num)

\* C5 witness: a finished run that reported twenty times
C5_Witness ==
    \E c \in CallIds :
        /\ call[c].pc = "done"
        /\ Len(progressLog[c]) >= 20
        /\ progressLog[c][20].stepCount = 20 * ProgressEvery

\* everything simulation i owns: its objects and the Vector3D objects they
\* refer to
SimObjects(i) ==
    <<earth[i], asteroid[i], sim[i], heap[earth[i].position],
      heap[asteroid[i].position], heap[asteroid[i].velocity]>>

\* the caller's initialPositionKm and initialVelocityKmS objects
CallerObjects == <<heap[params.initialPositionKm], heap[params.initialVelocityKmS]>>

\* the part of simulation i's state that a run computes
Outcome(i) ==
    [collisionDetected |-> sim[i].collisionDetected,
     collisionInfo |-> sim[i].collisionInfo,
     totalTime |-> sim[i].totalTime,
     rotation |-> earth[i].rotation,
     position |-> heap[asteroid[i].position],
     velocity |-> heap[asteroid[i].velocity],
     positions |-> asteroid[i].positions]

\* C7: simulations built by createSimulation from one params object are
\* independent: whatever changes one simulation leaves the other and the
\* caller's initialPositionKm / initialVelocityKmS objects as they were, and
\* however the two run() calls interleave, a simulation is where it would be
\* alone: with equal dt and no reset, the one with fewer steps has a history
\* that is an initial part of the other's, and after equally many steps they
\* agree on collisionInfo, totalTime and trajectory history.
C7_IndependentSimulations ==
    /\ [](\A i, j \in SimIds :
            (call[i].dt = call[j].dt /\ resets = 0
                /\ HistLen(asteroid[i].positions) <= HistLen(asteroid[j].positions))
                => /\ HistPrefix(asteroid[i].positions, asteroid[j].positions)
                   /\ HistLen(asteroid[i].positions) = HistLen(asteroid[j].positions)
                         => Outcome(i) = Outcome(j))
    /\ [][/\ CallerObjects' = CallerObjects
          /\ \A i, j \in SimIds :
                (i # j /\ SimObjects(i)' # SimObjects(i))
                    => SimObjects(j)' = SimObjects(j)]_vars

\* C7 witness: a run that started and finished while the other simulation's
\* run was suspended, and that other run went on and finished too
C7_Witness ==
    \E c, d \in CallIds :
        /\ c # d
        /\ trace[c].overlap
        /\ call[c].pc = "done" /\ call[c].stepCount > 0
        /\ call[d].pc = "done" /\ trace[d].yields > 0
        /\ call[d].stepCount > YieldEvery
        /\ call[d].stepCount > call[c].stepCount
        /\ HistPrefix(asteroid[call[c].sim].positions, asteroid[call[d].sim].positions)

\* C8 (as claimed): a run() that the host cancels (reset() on its simulation
\* while it is suspended) stops stepping: its stepCount stays what it was at
\* the cancellation, and it returns null.
C8_CancelStopsRun ==
    \A c \in CallIds :
        trace[c].cancelledAt >= 0
            => /\ call[c].stepCount = trace[c].cancelledAt
               /\ call[c].pc = "done" => call[c].result = Null

\* an activation of run() / of simulateImpact is suspended at an await
RunSuspended(c) == call[c].pc = "await"

ImpactSuspended == impact.pc \in {"zone", "casualties"}

EffectiveLocation(p) ==
    IF p.impactLocation = UndefinedObject THEN DefaultImpactLocation ELSE p.impactLocation

DeflectionScenario == DeflectionBody(140, Undefined, 3650, 6400, "kinetic")

\* C10 (as claimed): the deflection simulation for 140 m (default density),
\* 3650 days, 6400 km, kinetic returns successProbability = 0.9 and
\* feasible = true.
C10_DeflectionScenarioFeasible ==
    (deflect.pc = "done" /\ deflect.body = DeflectionScenario)
        => /\ deflect.response.status = 200
           /\ deflect.response.deflection.successProbability = 90
           /\ deflect.response.deflection.feasible = TRUE

-----------------------------------------------------------------------------
(* Properties of calculateDeflection *)

\* a direct call of op has returned
Returned(op) == calc.pc = "done" /\ calc.op = op

\* the efficiency the three methods are documented with, in hundredths
DocumentedEfficiency(method) ==
    CASE method = "kinetic" -> 50
      [] method = "gravity" -> 1
      [] method = "nuclear" -> 1000

-----------------------------------------------------------------------------
(* Properties of the impact energy *)

\* simulateImpact has returned for the documented example
ExampleReturned == impact.pc = "done" /\ impact.params = KineticEnergyExample

\* C17: the impact simulation of a 100 m asteroid at 20 km/s, 45 degrees and
\* 3000 kg/m^3 on land returns an energy of about 75 megatons of TNT (here
\* within 10 megatons of it), about 3.14e17 J (here within 10 percent).
C17_ExampleIs75Megatons ==
    ExampleReturned =>
        /\ impact.result.energy.megatons >= 65000
        /\ impact.result.energy.megatons <= 85000
        /\ impact.result.energy.joules >= 282600
        /\ impact.result.energy.joules <= 345400

-----------------------------------------------------------------------------
(* Properties of the impact coordinates *)

\* C20: the longitude reported in collisionInfo is the longitude of the
\* position minus Earth's rotation angle, wrapped to the canonical range of
\* -180 to 180 degrees.
C20_LongitudeCanonical ==
    \A i \in SimIds :
        sim[i].collisionDetected =>
            /\ sim[i].collisionInfo.longitude >= 0 - 180
            /\ sim[i].collisionInfo.longitude <= 180

-----------------------------------------------------------------------------
(* Properties of the seismic effects *)

\* the documented magnitude of an energy of m * 10^e J, in thousandths:
\* 0.67 * log10(E) - 5.87, floored at 0
DocumentedMagnitude(energy) ==
    The({ IF magnitude > 0 THEN magnitude ELSE 0 :
          magnitude \in { Quot(67 * Log10SciCenti(energy), 10) - 5870 } })

\* C18: the seismic.magnitude the impact pipeline returns is
\* 0.67 * log10(E_joules) - 5.87, floored at 0 (here to 0.02 of a magnitude).
C18_MagnitudeAsDocumented ==
    impact.pc = "done" =>
        Abs(impact.result.seismic.magnitude
              - DocumentedMagnitude(Sci(impact.result.energy.joules, 12))) <= 20

\* C19: seismic.radiusKm is 10^(magnitude - 1) of the magnitude that is
\* reported; with a reported magnitude of 0 the radius is 0.1 km.
C19_RadiusOfReportedMagnitude ==
    Returned("calculateSeismicEffects") =>
        /\ calc.out.radiusKm = Pow10Sci(calc.out.magnitude - 1000)
        /\ calc.out.magnitude = 0 => calc.out.radiusKm = [m |-> 1000, e |-> 0 - 1]

-----------------------------------------------------------------------------
(* Properties of the population service *)

\* C16: calculateOverlapArea(d, rBlast, rCity) is the area of the
\* intersection of the two discs for all inputs that are not negative: it is
\* never NaN.
C16_OverlapAreaIsANumber ==
    Returned("calculateOverlapArea") => calc.out # FNaN

\* the registry cities whose reach (blast radius + city radius) the point of
\* the returned getPopulationInRadius call is within
CitiesInReach ==
    { i \in 1..Len(majorCities) :
        FLessEq(CalculateDistance(calc.args.lat, calc.args.lon,
                                  majorCities[i].lat, majorCities[i].lon),
                FAdd(calc.args.radiusKm, FromInt(majorCities[i].radius))) }

\* the registry city closest to the point of the call, the first one of the
\* registry among equally distant ones
ClosestCity ==
    majorCities[CHOOSE i \in 1..Len(majorCities) :
        \A j \in 1..Len(majorCities) :
            \/ HaversineTable(calc.args.lat, calc.args.lon)[i]
                   < HaversineTable(calc.args.lat, calc.args.lon)[j]
            \/ /\ HaversineTable(calc.args.lat, calc.args.lon)[i]
                      = HaversineTable(calc.args.lat, calc.args.lon)[j]
               /\ i <= j]

-----------------------------------------------------------------------------
(* Properties of the casualty estimate *)

\* simulateImpact has returned
ImpactReturned == impact.pc = "done"

\* the zones of the returned impact that the disc of a registry city overlaps
ZonesOverlappingACity ==
    { z \in 1..ZoneCount :
        \E i \in 1..Len(majorCities) :
            FLess(CalculateDistance(impact.result.impactLocation.lat,
                                    impact.result.impactLocation.lon,
                                    majorCities[i].lat, majorCities[i].lon),
                  FAdd(impact.result.casualties.zones[z].radius,
                       FromInt(majorCities[i].radius))) }

\* the zones of the returned impact whose population is the estimate from the
\* nearest city: those without an affected city (line 121)
ZonesOnFallback ==
    { z \in 1..ZoneCount : impact.result.casualties.zones[z].affectedCities = <<>> }

\* C14: the estimate from the nearest city is used only when no city
\* intersects any of the four zones: if the disc of a registry city overlaps
\* a zone of an impact, no zone of that impact takes its population from the
\* estimate.
C14_FallbackOnlyWithoutAnyCity ==
    (ImpactReturned /\ ZonesOverlappingACity # {}) => ZonesOnFallback = {}

\* the mortality rates the zones are documented with
DocumentedMortalityRate(name) ==
    CASE name = "fireball" -> FromInt(1)
      [] name = "thermal" -> FRatio(9, 10)
      [] name = "airblast" -> FRatio(7, 10)
      [] name = "radiation" -> FRatio(3, 10)

\* round(population * mortalityRate) and round(population * (1 - mortalityRate) * 0.8)
RoundedDead(population, rate) == FRound(FMul(FromInt(population), rate))
RoundedInjured(population, rate) ==
    FRound(FMul(FMul(FromInt(population), FSub(FromInt(1), rate)), FRatio(8, 10)))

\* the sum over the cities exposed in zone z of the returned impact of
\* perCity(affectedPopulation, mortality rate of the zone)
SumOverCities(z, perCity(_, _)) ==
    SumOver([k \in 1..Len(impact.result.casualties.zones[z].affectedCities) |->
                perCity(impact.result.casualties.zones[z].affectedCities[k].affectedPopulation,
                        DocumentedMortalityRate(impact.result.casualties.zones[z].name))],
            1..Len(impact.result.casualties.zones[z].affectedCities))

\* the sum over the zones of the returned impact of
\* perZone(populationAffected, mortality rate of the zone)
SumOverZones(perZone(_, _)) ==
    SumOver([z \in 1..ZoneCount |->
                perZone(impact.result.casualties.zones[z].populationAffected,
                        DocumentedMortalityRate(impact.result.casualties.zones[z].name))],
            1..ZoneCount)

-----------------------------------------------------------------------------
(* Properties of one simulation under the host's direct calls *)

\* the asteroid of simulation 1 is at the centre of its Earth
AtEarthCentre == heap[asteroid[1].position] = heap[earth[1].position]

\* a step() of simulation 1 is taken: its history grows by one entry
StepTaken == HistLen(asteroid'[1].positions) = HistLen(asteroid[1].positions) + 1

\* C21: at zero separation the gravity calculation sets the acceleration to
\* (0, 0, 0), and the step that follows completes: the velocity is kept and
\* the position moves by velocity * dt, both finite.
C21_ZeroSeparationZeroAcceleration ==
    [][ (AtEarthCentre /\ StepTaken) =>
            /\ asteroid'[1].acceleration = ZeroVec
            /\ heap'[asteroid[1].velocity] = heap[asteroid[1].velocity]
            /\ heap'[asteroid[1].position] =
                   Vec(heap[asteroid[1].position].x
                           + Displacement(heap[asteroid[1].velocity].x, 0, DefaultDt),
                       heap[asteroid[1].position].y
                           + Displacement(heap[asteroid[1].velocity].y, 0, DefaultDt),
                       heap[asteroid[1].position].z
                           + Displacement(heap[asteroid[1].velocity].z, 0, DefaultDt))
            /\ sim'[1].totalTime = sim[1].totalTime + DefaultDt ]_vars

\* the asteroid that started at Earth's centre at 200 km/s has taken its
\* first step: it is 2000 km away and did not accelerate
C21_Witness ==
    /\ HistFirst(asteroid[1].positions) = heap[earth[1].position]
    /\ HistLen(asteroid[1].positions) = 2
    /\ heap[asteroid[1].position] = Vec(2000, 0, 0)
    /\ heap[asteroid[1].velocity] = Vec(KmS(200), 0, 0)
    /\ asteroid[1].acceleration = ZeroVec

\* the steps executed on simulation 1: by its two run() calls and by the host
StepsExecuted == call[1].stepCount + call[2].stepCount + host.steps

\* the dt of the step being taken: the host's default or that of the run
DtOfStep ==
    IF host'.steps # host.steps THEN DefaultDt
    ELSE IF call'[1].stepCount # call[1].stepCount THEN call[1].dt ELSE call[2].dt

\* C24: the trajectory history is append-only and in step order: it has
\* 1 + (steps executed) entries, its last entry is the current position,
\* every transition keeps the earlier entries, and each step advances
\* totalTime by dt and Earth's rotation by omega * dt modulo 2 pi.
C24_HistoryAppendOnly ==
    /\ [](/\ HistLen(asteroid[1].positions) = 1 + StepsExecuted
          /\ HistLast(asteroid[1].positions) = heap[asteroid[1].position])
    /\ [][/\ HistPrefix(asteroid[1].positions, asteroid'[1].positions)
          /\ HistLen(asteroid'[1].positions) \in
                 {HistLen(asteroid[1].positions), HistLen(asteroid[1].positions) + 1}
          /\ StepTaken =>
                /\ asteroid'[1].positions =
                       HistPush(asteroid[1].positions, heap'[asteroid[1].position])
                /\ sim'[1].totalTime = sim[1].totalTime + DtOfStep
                /\ earth'[1].rotation =
                       (earth[1].rotation + OmegaE7 * DtOfStep) % TwoPiE7
          /\ ~StepTaken =>
                /\ earth'[1].rotation = earth[1].rotation
                /\ heap'[asteroid[1].position] = heap[asteroid[1].position]]_vars

\* the Earth has made more than one turn over two long steps, the host has
\* reset the simulation and stepped it again: four entries, none lost
C24_Witness ==
    /\ call[1].dt = LongDt
    /\ call[1].stepCount = 2
    /\ resets = 1
    /\ host.steps = 1
    /\ HistLen(asteroid[1].positions) = 4
    /\ earth[1].rotation = 2 * OmegaE7 * LongDt + OmegaE7 * DefaultDt - TwoPiE7
    /\ sim[1].totalTime = DefaultDt

\* reset() is being called on simulation 1
ResetCalled == resets' = resets + 1

\* run() call c is returning
RunReturns(c) == call[c].pc # "done" /\ call'[c].pc = "done"

\* C25: collisionDetected is true if and only if collisionInfo is non-null;
\* once set both stay set until reset(); the value run() returns is non-null
\* exactly when collisionDetected is true.
C25_CollisionFlagMatchesInfo ==
    /\ [](sim[1].collisionDetected <=> sim[1].collisionInfo # Null)
    /\ [][/\ (sim[1].collisionDetected /\ ~ResetCalled) =>
                (sim'[1].collisionDetected /\ sim'[1].collisionInfo # Null)
          /\ \A c \in CallIds :
                RunReturns(c) =>
                   /\ (call'[c].result # Null) <=> sim'[1].collisionDetected
                   /\ call'[c].result = sim'[1].collisionInfo]_vars

\* a run has returned the collision it found, the host has reset the
\* simulation and a later checkCollisions() has found the collision again
C25_Witness ==
    /\ call[1].pc = "done"
    /\ call[1].result # Null
    /\ resets = 1
    /\ host.op = "checkCollisions"
    /\ host.out # Null
    /\ sim[1].collisionDetected
    /\ sim[1].collisionInfo # call[1].result

\* run() call c is being started
RunStarts(c) == call[c].pc = "idle" /\ call'[c].pc # "idle"

\* C26: reset() changes only totalTime, isRunning, collisionDetected and
\* collisionInfo; position, velocity, trajectory history and Earth's rotation
\* are left unchanged, and a run() started afterwards changes none of them
\* before its first step: it continues from the asteroid's last state.
C26_ResetKeepsTrajectory ==
    [][/\ ResetCalled =>
             /\ heap' = heap
             /\ asteroid' = asteroid
             /\ earth' = earth
             /\ sim'[1] = [sim[1] EXCEPT !.totalTime = 0, !.isRunning = FALSE,
                                         !.collisionDetected = FALSE,
                                         !.collisionInfo = Null]
       /\ \A c \in CallIds :
             RunStarts(c) => (heap' = heap /\ asteroid' = asteroid /\ earth' = earth)]_vars

\* the asteroid that left Earth's centre at 200 km/s: the first run stopped
\* on the collision of step 1 at 2000 km, the host reset the simulation, and
\* the second run took its one step from there to beyond 3900 km
C26_Witness ==
    /\ HistFirst(asteroid[1].positions) = ZeroVec
    /\ call[1].pc = "done" /\ call[1].stepCount = 1
    /\ resets = 1
    /\ host.steps = 0
    /\ call[2].pc = "done" /\ call[2].stepCount = 1
    /\ HistBeforeLast(asteroid[1].positions) = Vec(2000, 0, 0)
    /\ heap[asteroid[1].position].x > 3900
    /\ HistLen(asteroid[1].positions) = 3
    /\ sim[1].totalTime = DefaultDt

\* run() call c has been entered and has not returned
RunInProgress(c) == call[c].pc \in {"loop", "await"}

\* C28: as long as the host has not called reset(), isRunning is true exactly
\* while at least one run() call on the simulation is in progress, suspended
\* ones and overlapping ones included.
C28_IsRunningWhileRunInProgress ==
    resets = 0 => (sim[1].isRunning <=> \E c \in CallIds : RunInProgress(c))

-----------------------------------------------------------------------------
(* People counted in more than one blast zone *)

\* the zones of the returned impact that no other zone exceeds in radius
LargestRadiusZones ==
    { z \in 1..ZoneCount :
        \A j \in 1..ZoneCount :
            FLessEq(impact.result.casualties.zones[j].radius,
                    impact.result.casualties.zones[z].radius) }

\* C27: nobody is counted more than once across the concentric blast zones:
\* totalAffected (estimatedCasualties + estimatedInjured) never exceeds the
\* population exposed in the largest-radius zone.
C27_NobodyCountedTwice ==
    ImpactReturned =>
        \A z \in LargestRadiusZones :
            impact.result.casualties.totalAffected
                <= impact.result.casualties.zones[z].populationAffected

-----------------------------------------------------------------------------
(* The Kepler solver *)

\* the updates E -= deltaE made so far: the passes counted by i and the one
\* the break has left
KeplerUpdates == calc.i + (IF Converged(calc.deltaE) THEN 1 ELSE 0)

\* C22: solveKeplerEquation starts from E0 = M, makes at most 20
\* Newton-Raphson updates, stops as soon as an update is below 1e-8 in
\* magnitude, always returns, and what it returns is the last iterate, also
\* when the 20 updates did not converge.
C22_KeplerTerminates ==
    /\ [](KeplerUpdates <= 20)
    /\ [][/\ calc.pc = "idle" => calc'.E = calc.args.meanAnomaly
          /\ calc.pc = "loop" /\ calc'.pc # "done" =>
                /\ ~Converged(calc.deltaE)
                /\ calc'.pc = "break" <=> Converged(calc'.deltaE)
                /\ calc'.E = KeplerUpdate(calc.E, calc.args.meanAnomaly,
                                          calc.args.eccentricity).E]_vars
    /\ [](calc.pc = "done" =>
             /\ calc.out = calc.E
             /\ Converged(calc.deltaE) \/ calc.i = 20)
    /\ <>(calc.pc = "done")

\* M = 0.01, e = 0.999: twenty updates without convergence, and the twentieth
\* iterate, a finite number, is returned
C22_Witness ==
    /\ calc.pc = "done"
    /\ calc.args = [meanAnomaly |-> FRatio(10, 1000), eccentricity |-> FRatio(999, 1000)]
    /\ calc.i = 20
    /\ ~Converged(calc.deltaE)
    /\ FFinite(calc.out)
    /\ calc.out # calc.args.meanAnomaly

-----------------------------------------------------------------------------
(* Properties of the API server *)

\* C23: requests to GET /api/health are not rate-limited: they are never
\* rejected by the limiter and never count toward the limit of their IP.
C23_HealthNotRateLimited ==
    [][(\E ip \in Ips : Health(ip)) =>
          /\ server'.hits = server.hits
          /\ server'.response.status = 200]_vars

\* a result that carries the mark of the fallback
Degraded(elevation) == elevation.error = "API unavailable"

\* a request that needs the zone analysis is being answered with one
ZoneAnalysisAnswered ==
    /\ \E ip \in Ips : server'.hits[ip] = server.hits[ip] + 1
    /\ server'.request.route \in {"POST /api/usgs/analyze-zone", "POST /api/simulate/impact"}
    /\ server'.response.status = 200

\* the impact point of the zone analysis in the answer being given
AnsweredImpactPoint ==
    IF server'.request.route = "POST /api/simulate/impact"
    THEN server'.response.body.zoneAnalysis.impactPoint
    ELSE server'.response.body.impactPoint

\* the elevation result held under a cache key: the entry itself or the
\* impact point of a zone analysis
CachedElevation(key) ==
    IF key[1] = "elevation" THEN server.cache[key] ELSE server.cache[key].impactPoint

\* C29: the USGS service never caches a degraded result: neither an
\* elevation fallback nor a zone analysis whose impact point is one; so a
\* zone analysis answered while the elevation API is available has the real
\* isOcean / waterDepth data (the points requested lie in the ocean).
C29_NoDegradedResultCached ==
    /\ [](\A key \in DOMAIN server.cache : ~Degraded(CachedElevation(key)))
    /\ [][(ZoneAnalysisAnswered /\ server.apiUp) =>
             (/\ ~Degraded(AnsweredImpactPoint)
              /\ AnsweredImpactPoint.isOcean
              /\ AnsweredImpactPoint.waterDepth > 0)]_vars

\* the limiter has let a request to POST /api/usgs/analyze-zone pass
AnalyzeZoneAnswered ==
    /\ server.request # Null
    /\ server.request.route = "POST /api/usgs/analyze-zone"
    /\ server.response.status # 429

\* C30: POST /api/usgs/analyze-zone answers 400 only when lat or lon is
\* absent from the body; every numeric pair, lat = 0 or lon = 0 included, is
\* passed to analyzeImpactZone.
C30_ZeroCoordinatesAccepted ==
    AnalyzeZoneAnswered =>
        /\ (server.response.status = 400)
              <=> (server.request.body.lat = Undefined \/ server.request.body.lon = Undefined)
        /\ (server.request.body.lat # Undefined /\ server.request.body.lon # Undefined)
              => (/\ server.response.status = 200
                  /\ server.response.body.impactPoint.latitude = server.request.body.lat
                  /\ server.response.body.impactPoint.longitude = server.request.body.lon)

====
